---- MODULE Spec2Model ----
(***************************************************************************)
(* A model of the bluelink_kr integration: the polling coordinator         *)
(* (custom_components/bluelink_kr/__init__.py), the forced refresh button, *)
(* the options rescan, the 24h token refresh and the re-authorization      *)
(* request.                                                                *)
(*                                                                         *)
(* Two specifications share the module.  Spec is the polling coordinator;  *)
(* its clock `now` counts minutes.  SpecAuth is the credential life cycle; *)
(* its clock `today` counts days.                                          *)
(***************************************************************************)
EXTENDS Integers, Sequences, FiniteSets, TLC

(***************************************************************************)
(* Python's None and optional values: None is the empty tuple, a present   *)
(* value x is the one-element tuple <<x>>.                                  *)
(***************************************************************************)
None == <<>>
Some(x) == <<x>>

(***************************************************************************)
(* const.py: the intervals, in minutes.                                    *)
(***************************************************************************)
SCAN_INTERVAL == 5
BATTERY_INTERVAL == 5
CHARGING_INTERVAL == 10
DRIVING_RANGE_INTERVAL == 60
WARNING_INTERVAL == 60
ODOMETER_INTERVAL == 60

(***************************************************************************)
(* The instants, in minutes, at which the polling model reads the clock:   *)
(* they lie 0, 5, 10, 55, 60 and 65 minutes apart, so that every interval  *)
(* is met from below, exactly and from above.                              *)
(***************************************************************************)
Instants == {0, SCAN_INTERVAL, 2 * SCAN_INTERVAL, 13 * SCAN_INTERVAL}

\* the payloads the vendor answers with
Payloads == {"p1", "p2"}

(***************************************************************************)
(* const.py: car types.  A string is a tuple of one-character strings, so  *)
(* that strip() and upper() are computed and not assumed.                  *)
(***************************************************************************)
Upper(c) ==
    CASE c = "e" -> "E" [] c = "v" -> "V" [] c = "p" -> "P" [] c = "h" -> "H"
      [] c = "f" -> "F" [] c = "c" -> "C" [] c = "g" -> "G" [] c = "n" -> "N"
      [] OTHER -> c

IsSpace(c) == c = " "

RECURSIVE LStrip(_)
LStrip(s) == IF s # <<>> /\ IsSpace(Head(s)) THEN LStrip(Tail(s)) ELSE s

RECURSIVE RStrip(_)
RStrip(s) ==
    IF s # <<>> /\ IsSpace(s[Len(s)]) THEN RStrip(SubSeq(s, 1, Len(s) - 1)) ELSE s

Strip(s) == RStrip(LStrip(s))

UpperStr(s) == [i \in 1..Len(s) |-> Upper(s[i])]

EV_CAPABLE_CAR_TYPES == { <<"E", "V">>, <<"P", "H", "E", "V">>, <<"F", "C", "E", "V">> }

\* car_type is None or Some(string); "not car_type" is true of None and of "".
normalize_car_type(car_type) ==
    IF car_type = None \/ car_type[1] = <<>>
    THEN None
    ELSE Some(UpperStr(Strip(car_type[1])))

\* faulty variant: any type code ending in EV counts as EV-capable
is_ev_capable_car_type_suffix(car_type) ==
    LET normalized == normalize_car_type(car_type)
    IN  IF normalized = None
        THEN TRUE
        ELSE /\ Len(normalized[1]) >= 2
             /\ SubSeq(normalized[1], Len(normalized[1]) - 1, Len(normalized[1]))
                   = <<"E", "V">>

is_ev_capable_car_type(car_type) ==
    LET normalized == normalize_car_type(car_type)
    IN  IF normalized = None THEN TRUE ELSE normalized[1] \in EV_CAPABLE_CAR_TYPES

(***************************************************************************)
(* The carType values a car of the car list may carry; None is a car with  *)
(* no carType.                                                             *)
(***************************************************************************)
CarTypeInputs ==
    { None,
      Some(<<" ", "p", "h", "e", "v">>),
      Some(<<"H", "E", "V">>),
      Some(<<" ">>) }

(***************************************************************************)
(* The metric families, in the order the coordinator polls them.           *)
(***************************************************************************)
\* what a rescan finds for the selected car: nothing, or a car with this carType
RescanInputs == { None, Some(Some(<<"E", "V">>)), Some(Some(<<"H", "E", "V">>)) }

Order == <<"driving_range", "battery_status", "charging_status", "odometer", "warnings">>
Families == { Order[i] : i \in 1..Len(Order) }
EvFamilies == {"battery_status", "charging_status"}

Interval(f) ==
    CASE f = "driving_range" -> DRIVING_RANGE_INTERVAL
      [] f = "battery_status" -> BATTERY_INTERVAL
      [] f = "charging_status" -> CHARGING_INTERVAL
      [] f = "odometer" -> ODOMETER_INTERVAL
      [] f = "warnings" -> WARNING_INTERVAL

VARIABLES
    now,               \* dt_util.utcnow(), minutes
    phase,             \* "constructed" | "loaded" | "not_ready"
    access_token,      \* coordinator.access_token
    selected_car_id,   \* coordinator.selected_car_id
    car,               \* coordinator.car: None or Some(its carType)
    car_type,          \* coordinator.car_type
    is_ev_capable,     \* coordinator.is_ev_capable
    cached,            \* the _driving_range, _battery_status, ... fields
    last,              \* the _last_driving_range, _last_battery_status, ... fields
    vendor,            \* the reading the vendor answers with at this instant
    refresh_requested, \* async_request_refresh has been called and not yet served
    run                \* the coordinator run the last step made, if it made one

pollVars ==
    <<now, phase, access_token, selected_car_id, car, car_type, is_ev_capable,
      cached, last, vendor, refresh_requested, run>>

VARIABLES
    today,             \* dt_util.utcnow(), days
    entry_data,        \* entry.data: the persisted tokens
    refresh_token,     \* coordinator.refresh_token
    entry_loaded,      \* the entry is set up: hass.data[DOMAIN][entry_id] holds its
                       \* runtime
    refresh_unsub,     \* the 24h timer of _setup_token_refresh is registered
    reauth_notified,   \* hass.data[DOMAIN]["reauth_notified"]
    notifications,     \* persistent notifications created for the credential set
    flows,             \* re-authorization flows started for the credential set
    flows_in_progress, \* re-authorization flows started and not finished
    hist,              \* what happened to the credential set, for the properties
    cycle              \* the _async_update_data call in flight, request by request

authVars ==
    <<today, entry_data, refresh_token, entry_loaded, refresh_unsub,
      reauth_notified, notifications, flows, flows_in_progress, hist, cycle>>

VARIABLES
    skip_terms,        \* BLUELINK_SKIP_TERMS_REQUEST is on (the default)
    flow,              \* the config flows of the flow manager, by flow_id
    callback_states,   \* hass.data[DOMAIN]["callback_states"]: key -> flow_id, 0 absent
    issued,            \* how many state tokens secrets.token_urlsafe has drawn
    resumed,           \* per state token, the callbacks that resumed its flow
    entries,           \* the config entries of the domain
    entry,             \* what was written to the config entry, and its reloads
    request            \* the callback request the view answered last

flowVars ==
    <<skip_terms, flow, callback_states, issued, resumed, entries, entry, request>>

VARIABLES
    grant_call,        \* the arguments of an async_request_token call
    grant_result       \* what the call did, None before it is made

grantVars == <<grant_call, grant_result>>

VARIABLES
    op_call,           \* a call of a vendor client or car type function
    op_result          \* what the call did, None before it is made

opVars == <<op_call, op_result>>

VARIABLES
    force,             \* the async_force_refresh call in flight, request by request
    refresh,           \* the _async_refresh_tokens call in flight
    timers             \* the 24h timers registered with the host and not cancelled

raceVars == <<force, refresh, timers>>

\* no forced refresh in flight; at is the position in Order of the family
\* the call has reached, now the utcnow() it took
NoForce == [at |-> 0, now |-> 0]

\* no token refresh in flight; token is the refresh token the call sent,
\* generation the credential set it was read from, coordinator the day the
\* coordinator of the callback's closure was built
NoRefresh == [at |-> 0, token |-> None, generation |-> 0, coordinator |-> None]

\* nothing in flight, and the timers the entry's setups have registered
RaceIdle(n) ==
    /\ force = NoForce
    /\ refresh = NoRefresh
    /\ timers = n

\* the variables the polling code leaves alone
notPollVars == <<authVars, flowVars, grantVars, opVars, raceVars>>

vars == <<pollVars, authVars, flowVars, grantVars, opVars, raceVars>>

(***************************************************************************)
(* const.py: the lifetimes of the access token and of the refresh token    *)
(* and the re-authorization threshold, in days.                            *)
(***************************************************************************)
ACCESS_TOKEN_DEFAULT_EXPIRES_IN == 1
REFRESH_TOKEN_DEFAULT_EXPIRES_IN == 365
REFRESH_TOKEN_REAUTH_THRESHOLD_DAYS == 364

(***************************************************************************)
(* The days at which the credential model reads the clock.  The 24h timer  *)
(* of a loaded entry fires every day; the refresh attempts of the days     *)
(* left out here fail, which leaves every field as it was.                 *)
(***************************************************************************)
Days == {0, 1, 363, 364, 365, 728, 729}

NextDay(d) == CHOOSE t \in Days : t > d /\ \A u \in Days : u > d => t <= u

\* the one config entry
EntryId == "entry1"

(***************************************************************************)
(* What the token endpoint answers: fails is a transport error, a non-200  *)
(* status or an errCode; otherwise the JSON payload, whose refresh_token   *)
(* key may be absent (has_refresh_token false), null or empty (None) or a  *)
(* token, and whose expires_in key is absent (None) unless WithExpiresIn   *)
(* puts it.  Lifetimes and instants of the credentials are in days.        *)
(***************************************************************************)
TokenResponse(fails, at, has_rt, rt, tt) ==
    [fails |-> fails, access_token |-> at, has_refresh_token |-> has_rt,
     refresh_token |-> rt, token_type |-> tt, expires_in |-> None]

\* the payload with the key expires_in
WithExpiresIn(response, e) == [response EXCEPT !.expires_in = Some(e)]

\* the answers to the authorization_code grant
AuthResponses ==
    { TokenResponse(FALSE, Some("A1"), TRUE, Some("R1"), Some("Bearer")),
      TokenResponse(FALSE, Some("A1"), FALSE, None, Some("Bearer")) }

\* the answers to the refresh_token grant
RefreshResponses ==
    { TokenResponse(TRUE, None, FALSE, None, None),
      TokenResponse(FALSE, None, FALSE, None, None),
      TokenResponse(FALSE, Some("A2"), FALSE, None, None),
      TokenResponse(FALSE, Some("A2"), TRUE, None, Some("Bearer")),
      TokenResponse(FALSE, Some("A2"), TRUE, Some("R2"), Some("Bearer")),
      TokenResponse(FALSE, Some("A3"), TRUE, Some("R2"), Some("Bearer")) }

BluelinkAuthError(called) ==
    [error |-> TRUE, called |-> called, access_token |-> None,
     refresh_token |-> None, token_type |-> None,
     access_token_expires_at |-> None, refresh_token_expires_at |-> None]

\* Python's truth value of an optional string
Truthy(x) == x # None /\ x # Some("")

\* faulty variant: the refresh_token grant is sent without a refresh token
async_request_token_unchecked(grant_type, code, refresh_token_arg, access_token_arg, response, t) ==
    LET grant_ok ==
            CASE grant_type = "authorization_code" -> Truthy(code)
              [] grant_type = "refresh_token" -> TRUE
              [] grant_type = "delete" -> Truthy(access_token_arg)
              [] OTHER -> FALSE
    IN  IF ~grant_ok
        THEN BluelinkAuthError(FALSE)
        ELSE IF response.fails \/ ~Truthy(response.access_token)
             THEN BluelinkAuthError(TRUE)
             ELSE [error |-> FALSE, called |-> TRUE,
                   access_token |-> response.access_token,
                   refresh_token |-> refresh_token_arg,
                   token_type |-> response.token_type,
                   access_token_expires_at |->
                       Some(t + (IF response.expires_in = None
                                 THEN ACCESS_TOKEN_DEFAULT_EXPIRES_IN
                                 ELSE response.expires_in[1])),
                   refresh_token_expires_at |-> None]

\* faulty variant: the access token always gets the default lifetime
async_request_token_default_lifetime(grant_type, code, refresh_token_arg, access_token_arg, response, t) ==
    LET grant_ok ==
            CASE grant_type = "authorization_code" -> Truthy(code)
              [] grant_type = "refresh_token" -> Truthy(refresh_token_arg)
              [] grant_type = "delete" -> Truthy(access_token_arg)
              [] OTHER -> FALSE
        refresh_token_value ==
            IF response.has_refresh_token
            THEN response.refresh_token
            ELSE refresh_token_arg
    IN  IF ~grant_ok
        THEN BluelinkAuthError(FALSE)
        ELSE IF response.fails \/ ~Truthy(response.access_token)
             THEN BluelinkAuthError(TRUE)
             ELSE [error |-> FALSE, called |-> TRUE,
                   access_token |-> response.access_token,
                   refresh_token |-> refresh_token_value,
                   token_type |-> response.token_type,
                   access_token_expires_at |->
                       Some(t + ACCESS_TOKEN_DEFAULT_EXPIRES_IN),
                   refresh_token_expires_at |->
                       IF Truthy(refresh_token_value)
                       THEN Some(t + REFRESH_TOKEN_DEFAULT_EXPIRES_IN)
                       ELSE None]

(***************************************************************************)
(* api.async_request_token called at day t.  The result tells whether      *)
(* BluelinkAuthError was raised, whether the endpoint was called, and the  *)
(* TokenResult otherwise.                                                  *)
(***************************************************************************)
async_request_token(grant_type, code, refresh_token_arg, access_token_arg, response, t) ==
    LET grant_ok ==
            CASE grant_type = "authorization_code" -> Truthy(code)
              [] grant_type = "refresh_token" -> Truthy(refresh_token_arg)
              [] grant_type = "delete" -> Truthy(access_token_arg)
              [] OTHER -> FALSE
        refresh_token_value ==
            IF response.has_refresh_token
            THEN response.refresh_token
            ELSE refresh_token_arg
        expires_in ==
            IF response.expires_in = None
            THEN ACCESS_TOKEN_DEFAULT_EXPIRES_IN
            ELSE response.expires_in[1]
    IN  IF ~grant_ok
        THEN BluelinkAuthError(FALSE)
        ELSE IF response.fails \/ ~Truthy(response.access_token)
             THEN BluelinkAuthError(TRUE)
             ELSE [error |-> FALSE, called |-> TRUE,
                   access_token |-> response.access_token,
                   refresh_token |-> refresh_token_value,
                   token_type |-> response.token_type,
                   access_token_expires_at |-> Some(t + expires_in),
                   refresh_token_expires_at |->
                       IF Truthy(refresh_token_value)
                       THEN Some(t + REFRESH_TOKEN_DEFAULT_EXPIRES_IN)
                       ELSE None]

\* token_type or "Bearer"
OrBearer(tt) == IF tt = None THEN Some("Bearer") ELSE tt

\* the token keys of entry.data
EntryData(at, rt, tt, at_expires_at, rt_expires_at) ==
    [access_token |-> at, refresh_token |-> rt, token_type |-> tt,
     access_token_expires_at |-> at_expires_at,
     refresh_token_expires_at |-> rt_expires_at]

\* _maybe_request_reauth: utcnow() >= threshold, for the stored expiry
ThresholdReached(data, t) ==
    /\ data.refresh_token_expires_at # None
    /\ t >= data.refresh_token_expires_at[1] - REFRESH_TOKEN_DEFAULT_EXPIRES_IN
              + REFRESH_TOKEN_REAUTH_THRESHOLD_DAYS

\* _maybe_request_reauth: whether it notifies and starts a flow
maybe_request_reauth(data, t, notified) ==
    ThresholdReached(data, t) /\ EntryId \notin notified

\* the history of a credential set just obtained (or not yet); original is
\* the refresh token it came with, omitted_only tells that every successful
\* refresh since had a response without refresh_token field
NoHist(gen, obtained) ==
    [generation |-> gen, obtained_at |-> obtained, loaded_since |-> None,
     last_refresh |-> None, evaluated_at_threshold |-> FALSE,
     last_outcome |-> "none", token_requested |-> FALSE,
     last_evaluated |-> FALSE, returned |-> None, swapped_at |-> None,
     original |-> None, omitted_only |-> TRUE]

(***************************************************************************)
(* No _async_update_data call in flight (at = 0).  at is the position in   *)
(* Order of the family the call has reached, sub the number of warning     *)
(* endpoints _async_fetch_warnings has got answers from, held its          *)
(* access_token argument, now the utcnow() the call took, requests the     *)
(* number of requests the call has issued, carried the access token the    *)
(* latest of them carried, started the day of the last successful token    *)
(* refresh when the call began, initial the coordinator's access token     *)
(* when the call began.                                                    *)
(***************************************************************************)
NoCycle ==
    [at |-> 0, sub |-> 0, held |-> None, started |-> None, now |-> 0,
     requests |-> 0, carried |-> None, raised |-> FALSE, initial |-> None]

(***************************************************************************)
(* The config flows.  A flow is at the step the flow manager will call     *)
(* next: "user" and "vehicle" are forms, "auth" and "terms" external       *)
(* steps, "vehicle_done" and "abort_done" external steps that are done;    *)
(* a finished flow has left the flow manager.  state and terms_state are   *)
(* _state and _terms_state, 0 for None; exchanged and user_id tell that    *)
(* the code exchange succeeded and the profile had an id; listed is what   *)
(* the car list request of the flow's latest step answered, "none" when    *)
(* the step made no such request.                                          *)
(***************************************************************************)
MaxFlows == 2
MaxTokens == 4
FlowIds == 1..MaxFlows
Tokens == 1..MaxTokens
Cars == {"car1", "car2"}

\* a flow_id the flow manager has not given out yet
NoFlow ==
    [kind |-> "none", step |-> "none", result |-> "none", reason |-> "",
     abort_reason |-> "", unique_id |-> FALSE, reauth_entry |-> FALSE,
     state |-> 0, terms_state |-> 0, pending_auth_data |-> FALSE,
     exchanged |-> FALSE, user_id |-> FALSE, car_list |-> {},
     listed |-> "none", errors |-> ""]

NoRequest ==
    [state |-> 0, err_code |-> FALSE, authorization |-> FALSE, status |-> 0,
     flow_id |-> 0, configured |-> FALSE]

NoEntry == [writes |-> 0, reloads |-> 0, selected_car_id |-> None, by |-> 0]

\* the flow variables of the other models, which leave them alone
FlowIdle ==
    /\ skip_terms = TRUE
    /\ flow = [f \in FlowIds |-> NoFlow]
    /\ callback_states = [k \in 0..MaxTokens |-> 0]
    /\ issued = 0
    /\ resumed = [k \in Tokens |-> 0]
    /\ entries = 0
    /\ entry = NoEntry
    /\ request = NoRequest

\* no async_request_token call under study
GrantIdle ==
    /\ grant_call = None
    /\ grant_result = None

\* no client or car type call under study
OpIdle ==
    /\ op_call = None
    /\ op_result = None

\* the credential variables of the polling model, which leaves them alone
AuthIdle ==
    /\ today = 0
    /\ entry_data = EntryData(access_token, None, None, None, None)
    /\ refresh_token = None
    /\ entry_loaded = TRUE
    /\ refresh_unsub = TRUE
    /\ reauth_notified = {}
    /\ notifications = 0
    /\ flows = 0
    /\ flows_in_progress = 0
    /\ hist = NoHist(1, None)
    /\ cycle = NoCycle

NoCache == [f \in Families |-> None]

\* seq tells one run from the next: every run flips it
NoRun == [kind |-> "none", ready |-> FALSE, requested |-> <<>>,
          outcome |-> "none", published |-> None, seq |-> 0]

\* BluelinkCoordinator._should_fetch
should_fetch_strict(lastf, interval, t) ==
    IF lastf = None THEN TRUE ELSE (t - lastf[1]) > interval

\* faulty variant: a family never fetched is not due
should_fetch_unset_skips(lastf, interval, t) ==
    lastf # None /\ (t - lastf[1]) >= interval

should_fetch(lastf, interval, t) ==
    IF lastf = None THEN TRUE ELSE (t - lastf[1]) >= interval

\* the dict _async_update_data returns and async_force_refresh publishes
Snapshot(c, tok, carv, carid) ==
    [values |-> c, car |-> carv, selected_car_id |-> carid, access_token |-> tok]

\* faulty variant: a failed request also drops the family's cached value
FetchStep_clears(s, f, due, t, failAt, p) ==
    IF s.raised \/ ~due
    THEN s
    ELSE IF failAt = f
         THEN [s EXCEPT !.requested = Append(@, f), !.raised = TRUE,
                        !.cached[f] = None, !.last[f] = None]
         ELSE [s EXCEPT !.requested = Append(@, f),
                        !.cached[f] = Some(p),
                        !.last[f] = Some(t)]

(***************************************************************************)
(* One family of an incremental cycle.  s is the run so far: its cache,    *)
(* its staleness clocks, the requests issued and whether one has raised.   *)
(* failAt is the family whose request the vendor fails, p the payload the  *)
(* vendor answers with.                                                    *)
(***************************************************************************)
FetchStep(s, f, due, t, failAt, p) ==
    IF s.raised \/ ~due
    THEN s
    ELSE IF failAt = f
         THEN [s EXCEPT !.requested = Append(@, f), !.raised = TRUE]
         ELSE [s EXCEPT !.requested = Append(@, f),
                        !.cached[f] = Some(p),
                        !.last[f] = Some(t)]

\* the elif branch of the charging poll: a car that is not EV-capable
SkipEv(s, ev) ==
    IF s.raised \/ ev
    THEN s
    ELSE [s EXCEPT !.cached["charging_status"] = None,
                   !.last["charging_status"] = None,
                   !.cached["battery_status"] = None,
                   !.last["battery_status"] = None]

\* faulty variant: the odometer is requested before the charging status
UpdateData_reordered(c, l, tok, carid, ev, t, failAt, p) ==
    LET s0 == [cached |-> c, last |-> l, requested |-> <<>>, raised |-> FALSE]
        s1 == FetchStep(s0, "driving_range",
                        should_fetch(s0.last["driving_range"], DRIVING_RANGE_INTERVAL, t),
                        t, failAt, p)
        s2 == FetchStep(s1, "battery_status",
                        ev /\ should_fetch(s1.last["battery_status"], BATTERY_INTERVAL, t),
                        t, failAt, p)
        s3 == FetchStep(s2, "odometer",
                        should_fetch(s2.last["odometer"], ODOMETER_INTERVAL, t),
                        t, failAt, p)
        s4 == SkipEv(FetchStep(s3, "charging_status",
                        ev /\ should_fetch(s3.last["charging_status"], CHARGING_INTERVAL, t),
                        t, failAt, p), ev)
        s5 == FetchStep(s4, "warnings",
                        should_fetch(s4.last["warnings"], WARNING_INTERVAL, t),
                        t, failAt, p)
    IN  IF tok = None \/ carid = None
        THEN [kind |-> "incremental", ready |-> FALSE, cached |-> c, last |-> l,
              requested |-> <<>>, outcome |-> "UpdateFailed"]
        ELSE [kind |-> "incremental", ready |-> TRUE,
              cached |-> s5.cached, last |-> s5.last, requested |-> s5.requested,
              outcome |-> IF s5.raised THEN "UpdateFailed" ELSE "ok"]

(***************************************************************************)
(* BluelinkCoordinator._async_update_data: one incremental cycle started   *)
(* at t, from cache c and staleness clocks l.                              *)
(***************************************************************************)
UpdateData(c, l, tok, carid, ev, t, failAt, p) ==
    LET s0 == [cached |-> c, last |-> l, requested |-> <<>>, raised |-> FALSE]
        s1 == FetchStep(s0, "driving_range",
                        should_fetch(s0.last["driving_range"], DRIVING_RANGE_INTERVAL, t),
                        t, failAt, p)
        s2 == FetchStep(s1, "battery_status",
                        ev /\ should_fetch(s1.last["battery_status"], BATTERY_INTERVAL, t),
                        t, failAt, p)
        s3 == SkipEv(FetchStep(s2, "charging_status",
                        ev /\ should_fetch(s2.last["charging_status"], CHARGING_INTERVAL, t),
                        t, failAt, p), ev)
        s4 == FetchStep(s3, "odometer",
                        should_fetch(s3.last["odometer"], ODOMETER_INTERVAL, t),
                        t, failAt, p)
        s5 == FetchStep(s4, "warnings",
                        should_fetch(s4.last["warnings"], WARNING_INTERVAL, t),
                        t, failAt, p)
    IN  IF tok = None \/ carid = None
        THEN [kind |-> "incremental", ready |-> FALSE, cached |-> c, last |-> l,
              requested |-> <<>>, outcome |-> "UpdateFailed"]
        ELSE [kind |-> "incremental", ready |-> TRUE,
              cached |-> s5.cached, last |-> s5.last, requested |-> s5.requested,
              outcome |-> IF s5.raised THEN "UpdateFailed" ELSE "ok"]

\* faulty variant: a failed request also drops the family's cached value
ForceStep_clears(s, f, stamp, t, failAt, p) ==
    IF s.raised
    THEN s
    ELSE IF failAt = f
         THEN [s EXCEPT !.requested = Append(@, f), !.raised = TRUE,
                        !.cached[f] = None]
         ELSE [s EXCEPT !.requested = Append(@, f),
                        !.cached[f] = Some(p),
                        !.last[f] = IF stamp THEN Some(t) ELSE @]

\* faulty variant: a family is requested only when its interval has elapsed
ForceStep_gated(s, f, stamp, t, failAt, p) ==
    IF s.raised \/ ~should_fetch(s.last[f], Interval(f), t)
    THEN s
    ELSE IF failAt = f
         THEN [s EXCEPT !.requested = Append(@, f), !.raised = TRUE]
         ELSE [s EXCEPT !.requested = Append(@, f),
                        !.cached[f] = Some(p),
                        !.last[f] = IF stamp THEN Some(t) ELSE @]

(***************************************************************************)
(* One request of a forced refresh: always issued; stamp says whether the  *)
(* staleness clock is set right after it (the range's is set at the end).  *)
(***************************************************************************)
ForceStep(s, f, stamp, t, failAt, p) ==
    IF s.raised
    THEN s
    ELSE IF failAt = f
         THEN [s EXCEPT !.requested = Append(@, f), !.raised = TRUE]
         ELSE [s EXCEPT !.requested = Append(@, f),
                        !.cached[f] = Some(p),
                        !.last[f] = IF stamp THEN Some(t) ELSE @]

\* faulty variant: the driving range's clock is left as it was
StampRange_skip(s, t) == s

\* the last assignment of async_force_refresh: self._last_driving_range = now
StampRange(s, t) ==
    IF s.raised THEN s ELSE [s EXCEPT !.last["driving_range"] = Some(t)]

\* faulty variant: the forced refresh goes on without credentials
ForceRefresh_unchecked(c, l, tok, carid, ev, t, failAt, p) ==
    LET s0 == [cached |-> c, last |-> l, requested |-> <<>>, raised |-> FALSE]
        s1 == ForceStep(s0, "driving_range", FALSE, t, failAt, p)
        s2 == IF ev THEN ForceStep(s1, "battery_status", TRUE, t, failAt, p) ELSE s1
        s3 == IF ev
              THEN ForceStep(s2, "charging_status", TRUE, t, failAt, p)
              ELSE SkipEv(s2, ev)
        s4 == ForceStep(s3, "odometer", TRUE, t, failAt, p)
        s5 == StampRange(ForceStep(s4, "warnings", TRUE, t, failAt, p), t)
    IN  [kind |-> "forced", ready |-> TRUE,
         cached |-> s5.cached, last |-> s5.last, requested |-> s5.requested,
         outcome |-> IF s5.raised THEN "raised" ELSE "ok"]

(***************************************************************************)
(* BluelinkCoordinator.async_force_refresh: one forced refresh started at  *)
(* t, from cache c and staleness clocks l.                                 *)
(***************************************************************************)
ForceRefresh(c, l, tok, carid, ev, t, failAt, p) ==
    LET s0 == [cached |-> c, last |-> l, requested |-> <<>>, raised |-> FALSE]
        s1 == ForceStep(s0, "driving_range", FALSE, t, failAt, p)
        s2 == IF ev THEN ForceStep(s1, "battery_status", TRUE, t, failAt, p) ELSE s1
        s3 == IF ev
              THEN ForceStep(s2, "charging_status", TRUE, t, failAt, p)
              ELSE SkipEv(s2, ev)
        s4 == ForceStep(s3, "odometer", TRUE, t, failAt, p)
        s5 == StampRange(ForceStep(s4, "warnings", TRUE, t, failAt, p), t)
    IN  IF tok = None \/ carid = None
        THEN [kind |-> "forced", ready |-> FALSE, cached |-> c, last |-> l,
              requested |-> <<>>, outcome |-> "UpdateFailed"]
        ELSE [kind |-> "forced", ready |-> TRUE,
              cached |-> s5.cached, last |-> s5.last, requested |-> s5.requested,
              outcome |-> IF s5.raised THEN "raised" ELSE "ok"]

TypeOK ==
    /\ now \in Instants
    /\ phase \in {"constructed", "loaded", "not_ready"}
    /\ is_ev_capable \in BOOLEAN
    /\ refresh_requested \in BOOLEAN
    /\ \A f \in Families : last[f] = None \/ last[f][1] \in 0..now

\* the (access token, selected car id) pairs an entry may hold
CredentialInputs ==
    { <<Some("A"), Some("car1")>>, <<None, Some("car1")>>, <<Some("A"), None>> }

Init ==
    /\ now = 0
    /\ phase = "constructed"
    /\ \E cred \in CredentialInputs :
         access_token = cred[1] /\ selected_car_id = cred[2]
    /\ car \in { Some(ct) : ct \in CarTypeInputs }
    /\ car_type = normalize_car_type(IF car = None THEN None ELSE car[1])
    /\ is_ev_capable = is_ev_capable_car_type(car_type)
    /\ cached = NoCache
    /\ last = NoCache
    /\ vendor = "p1"
    /\ refresh_requested = FALSE
    /\ run = NoRun
    /\ AuthIdle
    /\ RaceIdle(1)
    /\ FlowIdle
    /\ GrantIdle
    /\ OpIdle

(***************************************************************************)
(* The coordinator after run r: its fields, and the snapshot the run       *)
(* published (the return value of _async_update_data, the argument of      *)
(* async_set_updated_data) when it succeeded.                              *)
(***************************************************************************)
Apply(r) ==
    /\ cached' = r.cached
    /\ last' = r.last
    /\ run' = [kind |-> r.kind, ready |-> r.ready, requested |-> r.requested,
               outcome |-> r.outcome,
               published |-> IF r.outcome = "ok"
                             THEN Some(Snapshot(r.cached, access_token, car,
                                                selected_car_id))
                             ELSE None,
               seq |-> 1 - run.seq]

\* time passes, to the next instant
Tick ==
    /\ \E t \in Instants : t > now
    /\ now' = CHOOSE t \in Instants : t > now /\ \A u \in Instants : u > now => t <= u
    /\ vendor' \in Payloads
    /\ run' = NoRun
    /\ UNCHANGED <<phase, access_token, selected_car_id, car, car_type,
                   is_ev_capable, cached, last, refresh_requested>>
    /\ UNCHANGED notPollVars

(***************************************************************************)
(* async_setup_entry: the first refresh of the coordinator just built.  A  *)
(* failed first refresh either is caught as UpdateFailed (setup goes on)   *)
(* or leaves the entry not ready, for the host to set it up again.         *)
(***************************************************************************)
FirstRefresh ==
    /\ phase = "constructed"
    /\ \E failAt \in Families \cup {"none"}, caught \in BOOLEAN :
         LET r == UpdateData(cached, last, access_token, selected_car_id,
                             is_ev_capable, now, failAt, vendor)
         IN  /\ Apply(r)
             /\ phase' = IF r.outcome = "ok" \/ caught THEN "loaded" ELSE "not_ready"
    /\ UNCHANGED <<now, access_token, selected_car_id, car, car_type, is_ev_capable,
                   vendor, refresh_requested>>
    /\ UNCHANGED notPollVars

\* the host sets the entry up again: BluelinkCoordinator.__init__
SetupRetry ==
    /\ phase = "not_ready"
    /\ phase' = "constructed"
    /\ car_type' = normalize_car_type(IF car = None THEN None ELSE car[1])
    /\ is_ev_capable' = is_ev_capable_car_type(car_type')
    /\ cached' = NoCache
    /\ last' = NoCache
    /\ refresh_requested' = FALSE
    /\ run' = NoRun
    /\ UNCHANGED <<now, access_token, selected_car_id, car, vendor>>
    /\ UNCHANGED notPollVars

(***************************************************************************)
(* A refresh of the loaded coordinator: the scheduled one, every           *)
(* SCAN_INTERVAL, or the one async_request_refresh asked for.              *)
(***************************************************************************)
ScheduledCycle ==
    /\ phase = "loaded"
    /\ \E failAt \in Families \cup {"none"} :
         Apply(UpdateData(cached, last, access_token, selected_car_id,
                          is_ev_capable, now, failAt, vendor))
    /\ refresh_requested' = FALSE
    /\ UNCHANGED <<now, phase, access_token, selected_car_id, car, car_type,
                   is_ev_capable, vendor>>
    /\ UNCHANGED notPollVars

(***************************************************************************)
(* BluelinkForceRefreshButton.async_press: the forced refresh; when it     *)
(* raises, async_request_refresh is called.                                *)
(***************************************************************************)
AsyncPress ==
    /\ phase = "loaded"
    /\ \E failAt \in Families \cup {"none"} :
         LET r == ForceRefresh(cached, last, access_token, selected_car_id,
                               is_ev_capable, now, failAt, vendor)
         IN  /\ Apply(r)
             /\ refresh_requested' = (refresh_requested \/ r.outcome # "ok")
    /\ UNCHANGED <<now, phase, access_token, selected_car_id, car, car_type,
                   is_ev_capable, vendor>>
    /\ UNCHANGED notPollVars

(***************************************************************************)
(* BluelinkOptionsFlow.async_step_init with rescan: the car list is        *)
(* fetched again, the selected car is looked up in it (found is its new    *)
(* carType, None when the list no longer holds the car), the coordinator's *)
(* car and classification are replaced and a refresh is requested.         *)
(***************************************************************************)
Rescan ==
    /\ phase = "loaded"
    /\ access_token # None
    /\ \E found \in RescanInputs :
         LET selected_car == IF selected_car_id = None THEN None ELSE found
         IN  /\ car' = selected_car
             /\ car_type' = normalize_car_type(
                                IF selected_car = None THEN None ELSE selected_car[1])
             /\ is_ev_capable' = is_ev_capable_car_type(car_type')
    /\ refresh_requested' = TRUE
    /\ run' = NoRun
    /\ UNCHANGED <<now, phase, access_token, selected_car_id, cached, last, vendor>>
    /\ UNCHANGED notPollVars

Next ==
    \/ Tick
    \/ FirstRefresh
    \/ SetupRetry
    \/ ScheduledCycle
    \/ AsyncPress
    \/ Rescan

Spec == Init /\ [][Next]_vars

(***************************************************************************)
(* The credential life cycle.                                              *)
(***************************************************************************)

\* the polling variables of the credential model, but for access_token
\* the variables the credential code leaves alone
coordRest ==
    <<now, phase, selected_car_id, car, car_type, is_ev_capable, vendor,
      refresh_requested, run, flowVars, grantVars, opVars,
                   raceVars>>

pollRest == <<coordRest, cached, last>>

\* what a setup, an unload and a reload leave alone
setupRest ==
    <<now, phase, selected_car_id, car, car_type, is_ev_capable, vendor,
      refresh_requested, run, flowVars, grantVars, opVars, force, refresh>>

\* BluelinkCoordinator.__init__: a coordinator object just built
NewCoordinator ==
    /\ cached' = NoCache
    /\ last' = NoCache
    /\ cycle' = NoCycle

PollIdle ==
    /\ now = 0
    /\ phase = "constructed"
    /\ selected_car_id = Some("car1")
    /\ car = Some(Some(<<"E", "V">>))
    /\ car_type = normalize_car_type(car[1])
    /\ is_ev_capable = is_ev_capable_car_type(car_type)
    /\ cached = NoCache
    /\ last = NoCache
    /\ vendor = "p1"
    /\ refresh_requested = FALSE
    /\ run = NoRun

(***************************************************************************)
(* The entry just created by the authorization flow, on day 0:             *)
(* async_step_auth exchanged the code for tokens, async_step_vehicle       *)
(* created the entry.  It is not set up yet.                               *)
(***************************************************************************)
InitAuth ==
    /\ PollIdle
    /\ RaceIdle(0)
    /\ FlowIdle
    /\ GrantIdle
    /\ OpIdle
    /\ today = 0
    /\ \E response \in AuthResponses :
         LET r == async_request_token("authorization_code", Some("code"), None,
                                      None, response, 0)
         IN  /\ entry_data = EntryData(r.access_token, r.refresh_token,
                                       OrBearer(r.token_type),
                                       r.access_token_expires_at,
                                       r.refresh_token_expires_at)
             /\ hist = [NoHist(1, IF r.refresh_token # None THEN Some(0) ELSE None)
                          EXCEPT !.original = r.refresh_token]
    /\ access_token = None
    /\ refresh_token = None
    /\ entry_loaded = FALSE
    /\ refresh_unsub = FALSE
    /\ reauth_notified = {}
    /\ notifications = 0
    /\ flows = 0
    /\ flows_in_progress = 0
    /\ cycle = NoCycle

(***************************************************************************)
(* _maybe_request_reauth run at day t on entry data `data`, with n         *)
(* notifications and f flows counted so far, p flows in progress and       *)
(* history h.                                                              *)
(***************************************************************************)
MaybeRequestReauth(data, t, n, f, p, h) ==
    LET emit == maybe_request_reauth(data, t, reauth_notified)
    IN  /\ reauth_notified' = IF emit THEN reauth_notified \cup {EntryId}
                                      ELSE reauth_notified
        /\ notifications' = IF emit THEN n + 1 ELSE n
        /\ flows' = IF emit THEN f + 1 ELSE f
        /\ flows_in_progress' = IF emit THEN p + 1 ELSE p
        /\ hist' = [h EXCEPT !.evaluated_at_threshold =
                                 @ \/ ThresholdReached(data, t)]

(***************************************************************************)
(* async_setup_entry: the coordinator is built from the entry's tokens,    *)
(* _setup_token_refresh evaluates the re-authorization once and registers  *)
(* the 24h timer.  (A setup that ends not ready changes none of these      *)
(* variables.)                                                             *)
(***************************************************************************)
async_setup_entry ==
    /\ ~entry_loaded
    /\ entry_loaded' = TRUE
    /\ refresh_unsub' = TRUE
    /\ access_token' = entry_data.access_token
    /\ refresh_token' = entry_data.refresh_token
    /\ MaybeRequestReauth(entry_data, today, notifications, flows,
                          flows_in_progress,
                          [hist EXCEPT !.loaded_since = Some(today),
                                       !.last_refresh = None,
                                       !.last_outcome = "none",
                                       !.token_requested = FALSE,
                                       !.last_evaluated = FALSE,
                                       !.returned = None,
                                       !.swapped_at = None])
    /\ NewCoordinator
    /\ timers' = timers + 1
    /\ UNCHANGED <<today, entry_data, setupRest>>

\* faulty variant: the runtime is dropped, the timer not cancelled
async_unload_entry_keeps_timer ==
    /\ entry_loaded
    /\ entry_loaded' = FALSE
    /\ access_token' = None
    /\ refresh_token' = None
    /\ hist' = [hist EXCEPT !.loaded_since = None, !.last_refresh = None,
                            !.last_outcome = "none",
                            !.token_requested = FALSE,
                            !.last_evaluated = FALSE, !.returned = None,
                            !.swapped_at = None]
    /\ NewCoordinator
    /\ UNCHANGED <<today, entry_data, refresh_unsub, reauth_notified,
                   notifications, flows, flows_in_progress, coordRest>>

(***************************************************************************)
(* async_unload_entry.  When the platforms unload (unload_ok) the runtime  *)
(* is popped and its refresh_unsub called, which cancels the timer;        *)
(* otherwise nothing is changed.                                           *)
(***************************************************************************)
async_unload_entry ==
    /\ entry_loaded
    /\ \E unload_ok \in BOOLEAN :
         IF unload_ok
         THEN /\ entry_loaded' = FALSE
              /\ refresh_unsub' = FALSE
              /\ access_token' = None
              /\ refresh_token' = None
              /\ hist' = [hist EXCEPT !.loaded_since = None,
                                      !.last_refresh = None,
                                      !.last_outcome = "none",
                                      !.token_requested = FALSE,
                                      !.last_evaluated = FALSE,
                                      !.returned = None,
                                      !.swapped_at = None]
              /\ NewCoordinator
              /\ timers' = IF refresh_unsub THEN timers - 1 ELSE timers
         ELSE UNCHANGED <<entry_loaded, refresh_unsub, access_token,
                          refresh_token, hist, cached, last, cycle, timers>>
    /\ UNCHANGED <<today, entry_data, reauth_notified, notifications, flows,
                   flows_in_progress, setupRest>>

\* a day goes by while no timer is registered
DayPasses ==
    /\ ~refresh_unsub
    /\ \E t \in Days : t > today
    /\ today' = NextDay(today)
    /\ UNCHANGED <<access_token, entry_data, refresh_token, entry_loaded,
                   refresh_unsub, reauth_notified, notifications, flows, flows_in_progress,
                   hist, cycle, pollRest>>

(***************************************************************************)
(* The body of _async_refresh_tokens at day t, for entry data `data` and   *)
(* the coordinator's tokens cur_at and cur_rt: how it ended (outcome),     *)
(* whether the token endpoint was called, the entry data and the           *)
(* coordinator's tokens it leaves, and whether it went on to               *)
(* _maybe_request_reauth.                                                  *)
(***************************************************************************)
\* faulty variant: a refresh that does not succeed drops the access token
refresh_tokens_wipes(data, cur_at, cur_rt, response, t) ==
    LET token_result == async_request_token("refresh_token", None, cur_rt,
                                            None, response, t)
    IN  IF cur_rt = None \/ token_result.error
        THEN [outcome |-> IF cur_rt = None THEN "no_token" ELSE "failed",
              called |-> token_result.called,
              data |-> [data EXCEPT !.access_token = None],
              access_token |-> None, refresh_token |-> cur_rt,
              evaluated |-> FALSE]
        ELSE [outcome |-> "ok", called |-> TRUE, data |-> data,
              access_token |-> token_result.access_token,
              refresh_token |-> cur_rt, evaluated |-> TRUE]

\* faulty variant: update_tokens leaves the coordinator's access token
refresh_tokens_stale(data, cur_at, cur_rt, response, t) ==
    LET token_result == async_request_token("refresh_token", None, cur_rt,
                                            None, response, t)
    IN  IF cur_rt = None \/ token_result.error
        THEN [outcome |-> IF cur_rt = None THEN "no_token" ELSE "failed",
              called |-> token_result.called, data |-> data,
              access_token |-> cur_at, refresh_token |-> cur_rt,
              evaluated |-> FALSE]
        ELSE [outcome |-> "ok", called |-> TRUE,
              data |-> [data EXCEPT !.access_token = token_result.access_token],
              access_token |-> cur_at, refresh_token |-> cur_rt,
              evaluated |-> TRUE]

\* faulty variant: the entry and the coordinator take the payload's
\* refresh_token as it is
refresh_tokens_payload(data, cur_at, cur_rt, response, t) ==
    LET token_result == async_request_token("refresh_token", None, cur_rt,
                                            None, response, t)
        new_data ==
            EntryData(token_result.access_token,
                      IF response.has_refresh_token
                      THEN response.refresh_token
                      ELSE None,
                      IF token_result.token_type # None
                      THEN token_result.token_type
                      ELSE OrBearer(data.token_type),
                      token_result.access_token_expires_at,
                      IF token_result.refresh_token_expires_at # None
                      THEN token_result.refresh_token_expires_at
                      ELSE data.refresh_token_expires_at)
    IN  IF cur_rt = None
        THEN [outcome |-> "no_token", called |-> FALSE, data |-> data,
              access_token |-> cur_at, refresh_token |-> cur_rt,
              evaluated |-> FALSE]
        ELSE IF token_result.error
             THEN [outcome |-> "failed", called |-> token_result.called,
                   data |-> data, access_token |-> cur_at,
                   refresh_token |-> cur_rt, evaluated |-> FALSE]
             ELSE [outcome |-> "ok", called |-> TRUE, data |-> new_data,
                   access_token |-> new_data.access_token,
                   refresh_token |-> new_data.refresh_token,
                   evaluated |-> TRUE]

refresh_tokens(data, cur_at, cur_rt, response, t) ==
    LET token_result == async_request_token("refresh_token", None, cur_rt,
                                            None, response, t)
        new_data ==
            EntryData(token_result.access_token,
                      IF token_result.refresh_token # None
                      THEN token_result.refresh_token
                      ELSE cur_rt,
                      IF token_result.token_type # None
                      THEN token_result.token_type
                      ELSE OrBearer(data.token_type),
                      token_result.access_token_expires_at,
                      IF token_result.refresh_token_expires_at # None
                      THEN token_result.refresh_token_expires_at
                      ELSE data.refresh_token_expires_at)
    IN  IF cur_rt = None
        THEN [outcome |-> "no_token", called |-> FALSE, data |-> data,
              access_token |-> cur_at, refresh_token |-> cur_rt,
              evaluated |-> FALSE]
        ELSE IF token_result.error
             THEN [outcome |-> "failed", called |-> token_result.called,
                   data |-> data, access_token |-> cur_at,
                   refresh_token |-> cur_rt, evaluated |-> FALSE]
             ELSE [outcome |-> "ok", called |-> TRUE, data |-> new_data,
                   access_token |-> new_data.access_token,
                   refresh_token |-> new_data.refresh_token,
                   evaluated |-> TRUE]

\* faulty variant: the new tokens come with an empty cache
update_tokens_resets(access_token_arg, refresh_token_arg) ==
    /\ access_token' = access_token_arg
    /\ refresh_token' = refresh_token_arg
    /\ cached' = NoCache
    /\ last' = NoCache
    /\ UNCHANGED <<selected_car_id, car, car_type, is_ev_capable>>

\* BluelinkCoordinator.update_tokens: the two assignments of the callback
update_tokens(access_token_arg, refresh_token_arg) ==
    /\ access_token' = access_token_arg
    /\ refresh_token' = refresh_token_arg
    /\ UNCHANGED <<selected_car_id, car, car_type, is_ev_capable, cached, last>>

(***************************************************************************)
(* _setup_token_refresh._async_refresh_tokens: the 24h timer of the loaded *)
(* entry fires, at the next day of Days.                                   *)
(***************************************************************************)
async_refresh_tokens ==
    /\ refresh_unsub
    /\ \E t \in Days : t > today
    /\ today' = NextDay(today)
    /\ \E response \in RefreshResponses :
         LET t == NextDay(today)
             r == refresh_tokens(entry_data, access_token, refresh_token,
                                 response, t)
             h == [hist EXCEPT !.last_refresh = Some(t),
                               !.last_outcome = r.outcome,
                               !.token_requested = r.called,
                               !.last_evaluated = r.evaluated,
                               !.returned = IF r.outcome = "ok"
                                            THEN response.access_token
                                            ELSE @,
                               !.swapped_at = IF r.outcome = "ok"
                                              THEN Some(t)
                                              ELSE @,
                               !.omitted_only =
                                   @ /\ (r.outcome = "ok"
                                           => ~response.has_refresh_token)]
         IN  /\ entry_data' = r.data
             /\ IF r.outcome = "ok"
                THEN update_tokens(r.access_token, r.refresh_token)
                ELSE /\ access_token' = r.access_token
                     /\ refresh_token' = r.refresh_token
                     /\ UNCHANGED <<selected_car_id, car, car_type,
                                    is_ev_capable, cached, last>>
             /\ IF r.evaluated
                THEN MaybeRequestReauth(r.data, t, notifications, flows,
                                        flows_in_progress, h)
                ELSE /\ hist' = h
                     /\ UNCHANGED <<reauth_notified, notifications, flows,
                                    flows_in_progress>>
    /\ UNCHANGED <<entry_loaded, refresh_unsub, cycle, now, phase, vendor,
                   refresh_requested, run, flowVars, grantVars, opVars,
                   raceVars>>

(***************************************************************************)
(* BluelinkConfigFlow.async_step_vehicle of a re-authorization flow: the   *)
(* tokens async_step_auth obtained today replace the entry's and the entry *)
(* is reloaded (unloaded when loaded, then set up).                        *)
(***************************************************************************)
async_step_vehicle ==
    /\ flows_in_progress > 0
    /\ \E response \in AuthResponses :
         LET r == async_request_token("authorization_code", Some("code"), None,
                                      None, response, today)
             auth_data == EntryData(r.access_token, r.refresh_token,
                                    OrBearer(r.token_type),
                                       r.access_token_expires_at,
                                    r.refresh_token_expires_at)
             h == [NoHist(hist.generation + 1,
                          IF r.refresh_token # None THEN Some(today) ELSE None)
                     EXCEPT !.loaded_since = Some(today),
                            !.original = r.refresh_token]
         IN  /\ entry_data' = auth_data
             /\ access_token' = auth_data.access_token
             /\ refresh_token' = auth_data.refresh_token
             /\ MaybeRequestReauth(auth_data, today, 0, 0, flows_in_progress - 1, h)
    /\ entry_loaded' = TRUE
    /\ refresh_unsub' = TRUE
    /\ timers' = IF entry_loaded /\ refresh_unsub THEN timers ELSE timers + 1
    /\ NewCoordinator
    /\ UNCHANGED <<today, setupRest>>

NextAuth ==
    \/ async_setup_entry
    \/ async_unload_entry
    \/ DayPasses
    \/ async_refresh_tokens
    \/ async_step_vehicle

SpecAuth == InitAuth /\ [][NextAuth]_vars

TypeOKAuth ==
    /\ today \in Days
    /\ entry_loaded \in BOOLEAN
    /\ refresh_unsub \in BOOLEAN
    /\ reauth_notified \subseteq {EntryId}
    /\ notifications \in 0..1 /\ flows \in 0..1 /\ flows_in_progress \in 0..1
    /\ hist.generation \in 1..2

(***************************************************************************)
(* The polling cycle next to the 24h token timer.  _async_update_data      *)
(* awaits each request, so the timer's callback can run between two        *)
(* requests of one call: the call is modelled request by request.  Each    *)
(* request reads coordinator.access_token when it is issued, except the    *)
(* warning endpoints, which carry the argument _async_fetch_warnings was   *)
(* called with.  utcnow() is the day, in minutes.                          *)
(***************************************************************************)
MinutesPerDay == 1440

\* the endpoints _async_fetch_warnings requests, engineOil only off an EV
WarningEndpoints(ct) == IF ct = Some(<<"E", "V">>) THEN 6 ELSE 7

\* _async_update_data begins: the credentials check and utcnow()
CycleStart ==
    /\ entry_loaded
    /\ cycle.at = 0
    /\ cycle' = IF access_token = None \/ selected_car_id = None
                THEN [NoCycle EXCEPT !.raised = TRUE,
                                     !.started = hist.swapped_at,
                                     !.now = today * MinutesPerDay,
                                     !.initial = access_token]
                ELSE [NoCycle EXCEPT !.at = 1,
                                     !.started = hist.swapped_at,
                                     !.now = today * MinutesPerDay,
                                     !.initial = access_token]
    /\ UNCHANGED <<today, entry_data, access_token, refresh_token, entry_loaded,
                   refresh_unsub, reauth_notified, notifications, flows, flows_in_progress,
                   hist, pollRest>>

\* _async_update_data goes on to its next await, or to its end
CycleStep ==
    /\ entry_loaded
    /\ cycle.at > 0
    /\ \E fails \in BOOLEAN :
         LET f == Order[cycle.at]
             due == /\ f \in EvFamilies => is_ev_capable
                    /\ should_fetch(last[f], Interval(f), cycle.now)
             held == IF cycle.sub = 0 THEN access_token ELSE cycle.held
             s == [cached |-> cached, last |-> last, requested |-> <<>>,
                   raised |-> FALSE]
             s1 == FetchStep(s, f, due, cycle.now,
                             IF fails THEN f ELSE "none", vendor)
             s2 == IF f = "charging_status" THEN SkipEv(s1, is_ev_capable) ELSE s1
         IN  IF f = "warnings" /\ due /\ ~fails
                /\ cycle.sub + 1 < WarningEndpoints(car_type)
             THEN /\ cycle' = [cycle EXCEPT !.sub = @ + 1, !.held = held,
                                            !.requests = @ + 1,
                                            !.carried = held]
                  /\ UNCHANGED <<cached, last>>
             ELSE /\ cached' = s2.cached
                  /\ last' = s2.last
                  /\ cycle' = [cycle EXCEPT
                        !.at = IF s2.raised \/ cycle.at = Len(Order)
                               THEN 0 ELSE @ + 1,
                        !.sub = 0,
                        !.held = None,
                        !.requests = @ + Len(s2.requested),
                        !.carried = IF s2.requested = <<>> THEN @
                                    ELSE IF f = "warnings" THEN held
                                    ELSE access_token,
                        !.raised = s2.raised]
    /\ UNCHANGED <<today, entry_data, access_token, refresh_token, entry_loaded,
                   refresh_unsub, reauth_notified, notifications, flows, flows_in_progress,
                   hist, coordRest>>

\* the last day on which the timer is followed
LastSwapDay == 363

\* the entry InitAuth describes, after async_setup_entry set it up on day 0
InitSwap ==
    /\ PollIdle
    /\ RaceIdle(1)
    /\ FlowIdle
    /\ GrantIdle
    /\ OpIdle
    /\ today = 0
    /\ \E response \in AuthResponses :
         LET r == async_request_token("authorization_code", Some("code"), None,
                                      None, response, 0)
         IN  /\ entry_data = EntryData(r.access_token, r.refresh_token,
                                       OrBearer(r.token_type),
                                       r.access_token_expires_at,
                                       r.refresh_token_expires_at)
             /\ hist = [NoHist(1, IF r.refresh_token # None THEN Some(0) ELSE None)
                          EXCEPT !.loaded_since = Some(0),
                                 !.original = r.refresh_token]
    /\ access_token = entry_data.access_token
    /\ refresh_token = entry_data.refresh_token
    /\ entry_loaded = TRUE
    /\ refresh_unsub = TRUE
    /\ reauth_notified = {}
    /\ notifications = 0
    /\ flows = 0
    /\ flows_in_progress = 0
    /\ cycle = NoCycle

\* the 24h timer fires
TimerFires == today < LastSwapDay /\ async_refresh_tokens

NextSwap ==
    \/ TimerFires
    \/ CycleStart
    \/ CycleStep

SpecSwap == InitSwap /\ [][NextSwap]_vars

(***************************************************************************)
(* The timer's callback next to a re-authorization.  _async_refresh_tokens *)
(* reads coordinator.refresh_token, awaits the token request, and then     *)
(* writes entry.data and the tokens of the coordinator of its closure.     *)
(* Cancelling the timer does not cancel a callback that is running, so an  *)
(* unload, a setup or a re-authorization can run while the callback is     *)
(* suspended: the callback is modelled in two steps.                       *)
(***************************************************************************)
\* the timer fires: up to the await of async_request_token
RefreshBegins ==
    /\ refresh_unsub
    /\ refresh.at = 0
    /\ \E t \in Days : t > today
    /\ today' = NextDay(today)
    /\ IF refresh_token = None
       THEN /\ hist' = [hist EXCEPT !.last_refresh = Some(NextDay(today)),
                                    !.last_outcome = "no_token",
                                    !.token_requested = FALSE,
                                    !.last_evaluated = FALSE]
            /\ UNCHANGED refresh
       ELSE /\ refresh' = [at |-> 1, token |-> refresh_token,
                           generation |-> hist.generation,
                           coordinator |-> hist.loaded_since]
            /\ UNCHANGED hist
    /\ UNCHANGED <<entry_data, access_token, refresh_token, entry_loaded,
                   refresh_unsub, reauth_notified, notifications, flows,
                   flows_in_progress, cycle, cached, last, now, phase,
                   selected_car_id, car, car_type, is_ev_capable, vendor,
                   refresh_requested, run, flowVars, grantVars, opVars,
                   force, timers>>

\* the token request has answered: from the await to the callback's end
RefreshCompletes ==
    /\ refresh.at = 1
    /\ refresh' = NoRefresh
    /\ \E response \in RefreshResponses :
         LET same == entry_loaded /\ hist.loaded_since = refresh.coordinator
             r == refresh_tokens(entry_data, access_token, refresh.token,
                                 response, today)
             h == [hist EXCEPT !.last_refresh = Some(today),
                               !.last_outcome = r.outcome,
                               !.token_requested = r.called,
                               !.last_evaluated = r.evaluated,
                               !.returned = IF r.outcome = "ok"
                                            THEN response.access_token
                                            ELSE @,
                               !.swapped_at = IF r.outcome = "ok"
                                              THEN Some(today)
                                              ELSE @,
                               !.omitted_only =
                                   @ /\ (r.outcome = "ok"
                                           => ~response.has_refresh_token)]
         IN  /\ entry_data' = r.data
             /\ IF r.outcome = "ok" /\ same
                THEN update_tokens(r.access_token, r.refresh_token)
                ELSE UNCHANGED <<access_token, refresh_token, selected_car_id,
                                 car, car_type, is_ev_capable, cached, last>>
             /\ IF r.evaluated
                THEN MaybeRequestReauth(r.data, today, notifications, flows,
                                        flows_in_progress, h)
                ELSE /\ hist' = h
                     /\ UNCHANGED <<reauth_notified, notifications, flows,
                                    flows_in_progress>>
    /\ UNCHANGED <<today, entry_loaded, refresh_unsub, cycle, now, phase,
                   vendor, refresh_requested, run, flowVars, grantVars, opVars,
                   force, timers>>

NextRace ==
    \/ async_setup_entry
    \/ async_unload_entry
    \/ DayPasses
    \/ RefreshBegins
    \/ RefreshCompletes
    \/ async_step_vehicle

SpecRace == InitAuth /\ [][NextRace]_vars

(***************************************************************************)
(* Setups that fail.  async_setup_entry registers the timer at its line    *)
(* 377 and then awaits async_sync_selected_vehicle and                     *)
(* async_forward_entry_setups, with no handler around them: when one of    *)
(* them raises, the setup fails with the runtime stored and the timer      *)
(* registered.  The host does not call async_unload_entry for an entry     *)
(* that is not loaded, and sets the entry up again on a retry or a reload. *)
(* (A setup that ends not ready at the first refresh has registered no     *)
(* timer.)                                                                 *)
(***************************************************************************)
\* the failed setups that are followed
MaxTimers == 2

\* async_setup_entry raising after _setup_token_refresh
async_setup_entry_raises ==
    /\ ~entry_loaded
    /\ timers < MaxTimers
    /\ refresh_unsub' = TRUE
    /\ access_token' = entry_data.access_token
    /\ refresh_token' = entry_data.refresh_token
    /\ MaybeRequestReauth(entry_data, today, notifications, flows,
                          flows_in_progress,
                          [hist EXCEPT !.last_refresh = None,
                                       !.last_outcome = "none",
                                       !.token_requested = FALSE,
                                       !.last_evaluated = FALSE,
                                       !.returned = None,
                                       !.swapped_at = None])
    /\ NewCoordinator
    /\ timers' = timers + 1
    /\ UNCHANGED <<today, entry_data, entry_loaded, setupRest>>

NextTimers ==
    \/ async_setup_entry
    \/ async_setup_entry_raises
    \/ async_unload_entry
    \/ DayPasses
    \/ async_refresh_tokens
    \/ async_step_vehicle

SpecTimers == InitAuth /\ [][NextTimers]_vars

(***************************************************************************)
(* A forced refresh next to the scheduled cycles.  async_force_refresh is  *)
(* not run under the coordinator's refresh lock: it takes utcnow() when it *)
(* begins, awaits each request, and writes the family's value and clock    *)
(* when the request has answered, so an _async_update_data call can begin  *)
(* and end while it is suspended.  Both calls are modelled request by      *)
(* request; utcnow() is now, in minutes.                                   *)
(***************************************************************************)
credRest ==
    <<today, entry_data, access_token, refresh_token, entry_loaded,
      refresh_unsub, reauth_notified, notifications, flows, flows_in_progress,
      hist>>

\* time passes, whatever is suspended
MinutesPass ==
    /\ \E t \in Instants :
         /\ t > now
         /\ \A u \in Instants : u > now => u >= t
         /\ now' = t
    /\ UNCHANGED <<credRest, cycle, cached, last, phase, selected_car_id, car,
                   car_type, is_ev_capable, vendor, refresh_requested, run,
                   flowVars, grantVars, opVars, raceVars>>

\* _async_update_data begins: the credentials check and utcnow()
UpdateDataBegins ==
    /\ cycle.at = 0
    /\ access_token # None /\ selected_car_id # None
    /\ cycle' = [NoCycle EXCEPT !.at = 1, !.now = now,
                                !.initial = access_token]
    /\ UNCHANGED <<credRest, pollRest>>

\* async_force_refresh begins: the credentials check and utcnow()
ForceRefreshBegins ==
    /\ force.at = 0
    /\ access_token # None /\ selected_car_id # None
    /\ force' = [at |-> 1, now |-> now]
    /\ UNCHANGED <<credRest, cycle, cached, last, now, phase, selected_car_id,
                   car, car_type, is_ev_capable, vendor, refresh_requested,
                   run, flowVars, grantVars, opVars, refresh, timers>>

\* async_force_refresh goes on to its next await, or to its end
ForceRefreshStep ==
    /\ force.at > 0
    /\ \E fails \in BOOLEAN :
         LET f == Order[force.at]
             s == [cached |-> cached, last |-> last, requested |-> <<>>,
                   raised |-> FALSE]
             s1 == IF f \in EvFamilies /\ ~is_ev_capable
                   THEN IF f = "charging_status" THEN SkipEv(s, FALSE) ELSE s
                   ELSE ForceStep(s, f, f # "driving_range", force.now,
                                  IF fails THEN f ELSE "none", vendor)
             s2 == IF f = "warnings" THEN StampRange(s1, force.now) ELSE s1
         IN  /\ cached' = s2.cached
             /\ last' = s2.last
             /\ force' = IF s2.raised \/ force.at = Len(Order)
                         THEN NoForce
                         ELSE [force EXCEPT !.at = @ + 1]
    /\ UNCHANGED <<credRest, cycle, now, phase, selected_car_id, car, car_type,
                   is_ev_capable, vendor, refresh_requested, run, flowVars,
                   grantVars, opVars, refresh, timers>>

\* a loaded entry with credentials and an EV-capable car, nothing fetched yet
InitOverlap ==
    /\ PollIdle
    /\ access_token = Some("A")
    /\ AuthIdle
    /\ RaceIdle(1)
    /\ FlowIdle
    /\ GrantIdle
    /\ OpIdle

NextOverlap ==
    \/ MinutesPass
    \/ UpdateDataBegins
    \/ CycleStep
    \/ ForceRefreshBegins
    \/ ForceRefreshStep

SpecOverlap == InitOverlap /\ [][NextOverlap]_vars

(***************************************************************************)
(* config_flow.py and views.py: the authorization flows, the callback view *)
(* and the flow manager that calls the steps.  What the flow manager does  *)
(* is the host's: async_configure calls the handler of the flow's current  *)
(* step, raises UnknownFlow for a flow that has finished, InvalidData for  *)
(* input a form's schema rejects and ValueError when an external step      *)
(* returns anything but an external step or its end; async_set_unique_id   *)
(* aborts a flow when another flow in progress has the same unique id.     *)
(***************************************************************************)
Profiles == {"ok", "no_id", "fails"}

\* what async_get_car_list answers: BluelinkAuthError, or the cars' ids
CarListResponses ==
    { [fails |-> TRUE, cars |-> {}], [fails |-> FALSE, cars |-> {}],
      [fails |-> FALSE, cars |-> {"car1"}] }

ListOutcome(car_list) ==
    IF car_list.fails THEN "fails"
    ELSE IF car_list.cars = {} THEN "empty" ELSE "cars"

\* the answers to the flow's authorization_code grant
ExchangeResponses ==
    AuthResponses \cup { TokenResponse(TRUE, None, FALSE, None, None) }

\* what a step hands back: the flow, the callback_states keys it mapped to
\* the flow, the state tokens it drew and what it persisted
StepResult(fl, puts, drawn, persist, selected) ==
    [flow |-> fl, puts |-> puts, drawn |-> drawn, persist |-> persist,
     selected |-> selected]

async_external_step_done(fl, next_step_id) ==
    [fl EXCEPT !.step = IF next_step_id = "vehicle" THEN "vehicle_done"
                        ELSE "abort_done"]

\* FlowHandler.async_abort: the flow manager drops the flow
async_abort(fl, reason) ==
    [fl EXCEPT !.step = "finished", !.result = "abort", !.reason = reason]

\* BluelinkConfigFlow._abort_external
abort_external(fl, reason) ==
    async_external_step_done([fl EXCEPT !.abort_reason = reason], "abort")

(***************************************************************************)
(* A step handler raises an exception that is not an abort: the flow       *)
(* manager passes it on.  A flow that was being configured stays at its    *)
(* step; a flow that was being initialised (the re-authorization, whose    *)
(* init step calls async_step_user) does not come to be in progress.       *)
(***************************************************************************)
raise_in_step(fl) ==
    IF fl.step = "none"
    THEN [fl EXCEPT !.step = "finished", !.result = "raised"]
    ELSE [fl EXCEPT !.result = "raised"]

\* faulty variant: no check for a configured entry
async_step_user_unchecked(fl, in_progress, configured, base_url, fresh) ==
    LET fl1 == [fl EXCEPT !.unique_id = TRUE]
    IN  IF in_progress
        THEN StepResult(async_abort(fl1, "already_in_progress"), {}, 0, "none", None)
        ELSE IF ~base_url
             THEN StepResult(raise_in_step(fl1), {}, 0, "none", None)
             ELSE StepResult([fl1 EXCEPT !.state = fresh, !.step = "auth",
                                         !.result = "none"],
                             {fresh}, 1, "none", None)

(***************************************************************************)
(* BluelinkConfigFlow.async_step_user with user input.  in_progress:       *)
(* another flow in progress has the domain's unique id; configured: an     *)
(* entry of the domain exists; base_url: network.get_url found a URL;      *)
(* fresh: the token secrets.token_urlsafe draws.  Without a URL the step   *)
(* sets errors["base"] and goes on to build_authorize_url with             *)
(* _redirect_uri and _state still None: quote(None) raises TypeError       *)
(* before anything is written to callback_states, and the form with the    *)
(* errors is not reached.                                                  *)
(***************************************************************************)
async_step_user(fl, in_progress, configured, base_url, fresh) ==
    LET fl1 == [fl EXCEPT !.unique_id = TRUE]
    IN  IF in_progress
        THEN StepResult(async_abort(fl1, "already_in_progress"), {}, 0, "none", None)
        ELSE IF ~fl.reauth_entry /\ configured
             THEN StepResult(async_abort(fl1, "already_configured"), {}, 0,
                             "none", None)
             ELSE IF ~base_url
                  THEN StepResult(raise_in_step(fl1), {}, 0, "none", None)
                  ELSE StepResult([fl1 EXCEPT !.state = fresh, !.step = "auth",
                                              !.result = "none"],
                                  {fresh}, 1, "none", None)

\* faulty variant: with terms skipped, a car list that fails or is empty aborts
async_step_auth_aborts(fl, authorization, token_result, profile, car_list, skip, fresh) ==
    IF ~authorization \/ token_result.error \/ profile # "ok"
    THEN StepResult(abort_external(fl, "invalid_auth"), {}, 0, "none", None)
    ELSE LET fl1 == [fl EXCEPT !.exchanged = TRUE, !.user_id = TRUE,
                               !.pending_auth_data = TRUE,
                               !.listed = IF skip THEN ListOutcome(car_list)
                                          ELSE "none"]
         IN  IF skip
             THEN IF ~car_list.fails /\ car_list.cars # {}
                  THEN StepResult([async_external_step_done(fl1, "vehicle")
                                     EXCEPT !.car_list = car_list.cars],
                                  {}, 0, "none", None)
                  ELSE StepResult(abort_external(fl1, "no_cars"), {}, 0, "none", None)
             ELSE StepResult([fl1 EXCEPT !.terms_state = fresh, !.step = "terms"],
                             {fresh} \cup (IF fl.state # 0 THEN {fl.state} ELSE {}),
                             1, "none", None)

\* faulty variant: a profile without id does not abort
async_step_auth_no_id(fl, authorization, token_result, profile, car_list, skip, fresh) ==
    IF ~authorization \/ token_result.error \/ profile = "fails"
    THEN StepResult(abort_external(fl, "invalid_auth"), {}, 0, "none", None)
    ELSE LET fl1 == [fl EXCEPT !.exchanged = TRUE, !.user_id = (profile = "ok"),
                               !.pending_auth_data = TRUE,
                               !.listed = IF skip THEN ListOutcome(car_list)
                                          ELSE "none"]
         IN  IF skip /\ ~car_list.fails /\ car_list.cars # {}
             THEN StepResult([async_external_step_done(fl1, "vehicle")
                                EXCEPT !.car_list = car_list.cars],
                             {}, 0, "none", None)
             ELSE StepResult([fl1 EXCEPT !.terms_state = fresh, !.step = "terms"],
                             {fresh} \cup (IF fl.state # 0 THEN {fl.state} ELSE {}),
                             1, "none", None)

(***************************************************************************)
(* BluelinkConfigFlow.async_step_auth with user input: the code exchange,  *)
(* the profile, and with terms skipped the car list; otherwise, and when   *)
(* the car list fails or is empty, the terms step with a new state token.  *)
(***************************************************************************)
async_step_auth(fl, authorization, token_result, profile, car_list, skip, fresh) ==
    IF ~authorization
    THEN StepResult(abort_external(fl, "invalid_auth"), {}, 0, "none", None)
    ELSE IF token_result.error
    THEN StepResult(abort_external(fl, "invalid_auth"), {}, 0, "none", None)
    ELSE IF profile # "ok"
    THEN StepResult(abort_external([fl EXCEPT !.exchanged = TRUE], "invalid_auth"),
                    {}, 0, "none", None)
    ELSE LET fl1 == [fl EXCEPT !.exchanged = TRUE, !.user_id = TRUE,
                               !.pending_auth_data = TRUE,
                               !.listed = IF skip THEN ListOutcome(car_list)
                                          ELSE "none"]
         IN  IF skip /\ ~car_list.fails /\ car_list.cars # {}
             THEN StepResult([async_external_step_done(fl1, "vehicle")
                                EXCEPT !.car_list = car_list.cars],
                             {}, 0, "none", None)
             ELSE StepResult([fl1 EXCEPT !.terms_state = fresh, !.step = "terms"],
                             {fresh} \cup (IF fl.state # 0 THEN {fl.state} ELSE {}),
                             1, "none", None)

\* BluelinkConfigFlow.async_step_terms with user input
async_step_terms(fl, authorization, car_list) ==
    LET fl1 == [fl EXCEPT !.listed = ListOutcome(car_list)]
    IN  IF ~fl.pending_auth_data \/ ~authorization
        THEN StepResult(abort_external([fl EXCEPT !.listed = "none"],
                                       "invalid_auth"),
                        {}, 0, "none", None)
        ELSE IF car_list.fails
        THEN StepResult(abort_external(fl1, "invalid_auth"), {}, 0, "none", None)
        ELSE IF car_list.cars = {}
        THEN StepResult(abort_external(fl1, "no_cars"), {}, 0, "none", None)
        ELSE StepResult([async_external_step_done(fl1, "vehicle")
                           EXCEPT !.car_list = car_list.cars],
                        {}, 0, "none", None)

(***************************************************************************)
(* BluelinkConfigFlow.async_step_vehicle (the flow's side of it).          *)
(* user_input is None, or Some of the selected_car_id key's value, itself  *)
(* None when the key is missing.                                           *)
(***************************************************************************)
step_vehicle(fl0, user_input) ==
    LET fl == [fl0 EXCEPT !.listed = "none"]
    IN
    IF fl.car_list = {}
    THEN StepResult(async_abort(fl, "no_cars"), {}, 0, "none", None)
    ELSE IF ~fl.pending_auth_data
    THEN StepResult(async_abort(fl, "invalid_auth"), {}, 0, "none", None)
    ELSE IF user_input = None
    THEN StepResult([fl EXCEPT !.step = "vehicle"], {}, 0, "none", None)
    ELSE IF user_input[1] = None \/ user_input[1][1] \notin fl.car_list
    THEN StepResult(async_abort(fl, "invalid_auth"), {}, 0, "none", None)
    ELSE IF fl.reauth_entry
    THEN StepResult(async_abort(fl, "reauth_successful"), {}, 0, "merge",
                    user_input[1])
    ELSE StepResult([fl EXCEPT !.step = "finished", !.result = "create_entry"],
                    {}, 0, "create", user_input[1])

\* BluelinkConfigFlow.async_step_abort
async_step_abort(fl) ==
    StepResult(async_abort([fl EXCEPT !.listed = "none"],
                           IF fl.abort_reason = "" THEN "unknown"
                           ELSE fl.abort_reason),
               {}, 0, "none", None)

\* faulty variant: an unknown state is answered without an error
view_get_lenient(state, err_code, authorization, cs) ==
    IF state = 0 \/ cs[state] = 0
    THEN [status |-> 200, pop |-> FALSE, flow_id |-> 0, configure |-> FALSE]
    ELSE [status |-> IF err_code \/ authorization THEN 200 ELSE 400,
          pop |-> TRUE, flow_id |-> cs[state],
          configure |-> ~err_code /\ authorization]

(***************************************************************************)
(* BluelinkUnifiedCallbackView.get up to async_configure: the response     *)
(* status so far, whether the state was popped, the flow_id it mapped to   *)
(* and whether the flow is to be resumed.  state 0 is no state parameter.  *)
(***************************************************************************)
view_get(state, err_code, authorization, cs) ==
    IF state = 0 \/ cs[state] = 0
    THEN [status |-> 400, pop |-> FALSE, flow_id |-> 0, configure |-> FALSE]
    ELSE IF err_code
    THEN [status |-> 200, pop |-> TRUE, flow_id |-> cs[state], configure |-> FALSE]
    ELSE IF ~authorization
    THEN [status |-> 400, pop |-> TRUE, flow_id |-> cs[state], configure |-> FALSE]
    ELSE [status |-> 200, pop |-> TRUE, flow_id |-> cs[state], configure |-> TRUE]

\* another flow in progress has set the domain's unique id
InProgress(f) ==
    \E g \in FlowIds \ {f} :
        flow[g].unique_id /\ flow[g].step \notin {"none", "finished"}

\* the flow manager stores what step f handed back
Store(f, r, cs) ==
    /\ flow' = [flow EXCEPT ![f] = r.flow]
    /\ callback_states' = [k \in 0..MaxTokens |-> IF k \in r.puts THEN f ELSE cs[k]]
    /\ issued' = issued + r.drawn
    /\ entries' = IF r.persist = "create" THEN entries + 1 ELSE entries
    /\ entry' = CASE r.persist = "create" ->
                       [entry EXCEPT !.writes = @ + 1,
                                     !.selected_car_id = r.selected, !.by = f]
                  [] r.persist = "merge" ->
                       [entry EXCEPT !.writes = @ + 1, !.reloads = @ + 1,
                                     !.selected_car_id = r.selected, !.by = f]
                  [] OTHER -> entry

flowRest == <<pollVars, authVars, grantVars, opVars, raceVars, skip_terms>>

\* the user opens the integration's config flow: async_step_user shows its form
InitUserFlow(f) ==
    /\ flow[f].kind = "none"
    /\ \A g \in FlowIds : g < f => flow[g].kind # "none"
    /\ flow' = [flow EXCEPT ![f] = [NoFlow EXCEPT !.kind = "user", !.step = "user"]]
    /\ UNCHANGED <<callback_states, issued, resumed, entries, entry, request,
                   flowRest>>

\* the user submits the client credentials
SubmitUser(f) ==
    /\ flow[f].step = "user"
    /\ \E base_url \in BOOLEAN :
         Store(f, async_step_user(flow[f], InProgress(f), entries > 0, base_url,
                                  issued + 1),
               callback_states)
    /\ UNCHANGED <<resumed, request, flowRest>>

\* _maybe_request_reauth starts a flow: async_step_reauth, then async_step_user
InitReauthFlow(f) ==
    /\ entries > 0
    /\ flow[f].kind = "none"
    /\ \A g \in FlowIds : g < f => flow[g].kind # "none"
    /\ \E base_url \in BOOLEAN :
         Store(f, async_step_user([NoFlow EXCEPT !.kind = "reauth",
                                                 !.reauth_entry = TRUE],
                                  InProgress(f), entries > 0, base_url,
                                  issued + 1),
               callback_states)
    /\ UNCHANGED <<resumed, request, flowRest>>

\* the query of a callback request: state (0 when absent), whether errCode
\* is there and whether code or userId is; errCode is looked at first
CallbackQueries ==
    { q \in [state : 0..MaxTokens, err_code : BOOLEAN, authorization : BOOLEAN] :
        q.err_code => ~q.authorization }

(***************************************************************************)
(* A GET on a callback path: BluelinkUnifiedCallbackView.get, and the step *)
(* async_configure calls.                                                  *)
(***************************************************************************)
Callback ==
    /\ UNCHANGED flowRest
    /\ \E q \in CallbackQueries :
      LET state == q.state
          err_code == q.err_code
          authorization == q.authorization
          v == view_get(state, err_code, authorization, callback_states)
          f == v.flow_id
          cs == IF v.pop THEN [callback_states EXCEPT ![state] = 0]
                ELSE callback_states
          req == [state |-> state, err_code |-> err_code,
                  authorization |-> authorization, status |-> v.status,
                  flow_id |-> f, configured |-> FALSE]
      IN  IF ~v.configure
          THEN /\ callback_states' = cs
               /\ request' = req
               /\ UNCHANGED <<flow, issued, resumed, entries, entry>>
          ELSE IF flow[f].step \in {"none", "finished", "user", "vehicle"}
          THEN \* UnknownFlow, or InvalidData from the form's schema
               /\ callback_states' = cs
               /\ request' = [req EXCEPT !.status = 500]
               /\ UNCHANGED <<flow, issued, resumed, entries, entry>>
          ELSE \E response \in ExchangeResponses, profile \in Profiles,
                  car_list \in CarListResponses :
                 LET r == CASE flow[f].step = "auth" ->
                                 async_step_auth(flow[f], authorization,
                                     async_request_token("authorization_code",
                                         Some("code"), None, None, response, today),
                                     profile, car_list, skip_terms, issued + 1)
                            [] flow[f].step = "terms" ->
                                 async_step_terms(flow[f], authorization, car_list)
                            [] flow[f].step = "vehicle_done" ->
                                 step_vehicle(flow[f], Some(None))
                            [] flow[f].step = "abort_done" ->
                                 async_step_abort(flow[f])
                 IN  IF /\ flow[f].step \in {"auth", "terms"}
                        /\ r.flow.step \notin {"auth", "terms", "vehicle_done",
                                               "abort_done"}
                     THEN \* ValueError: the state is put back
                          /\ callback_states' = [cs EXCEPT ![state] = f]
                          /\ request' = [req EXCEPT !.status = 400]
                          /\ UNCHANGED <<flow, issued, resumed, entries, entry>>
                     ELSE /\ Store(f, r, cs)
                          /\ resumed' = [resumed EXCEPT ![state] = @ + 1]
                          /\ request' = [req EXCEPT !.configured = TRUE]

\* the frontend goes on after an external step is done
FrontendConfigure(f) ==
    /\ flow[f].step \in {"vehicle_done", "abort_done"}
    /\ Store(f, IF flow[f].step = "vehicle_done"
                THEN step_vehicle(flow[f], None)
                ELSE async_step_abort(flow[f]),
             callback_states)
    /\ UNCHANGED <<resumed, request, flowRest>>

\* the user picks a car; vol.In(choices) lets a car of the list through
SubmitVehicle(f) ==
    /\ flow[f].step = "vehicle"
    /\ \E selected \in Cars \cap flow[f].car_list :
         Store(f, step_vehicle(flow[f], Some(Some(selected))), callback_states)
    /\ UNCHANGED <<resumed, request, flowRest>>

InitFlow ==
    /\ PollIdle
    /\ access_token = None
    /\ AuthIdle
    /\ RaceIdle(1)
    /\ GrantIdle
    /\ OpIdle
    /\ skip_terms \in BOOLEAN
    /\ flow = [f \in FlowIds |-> NoFlow]
    /\ callback_states = [k \in 0..MaxTokens |-> 0]
    /\ issued = 0
    /\ resumed = [k \in Tokens |-> 0]
    /\ entries = 0
    /\ entry = NoEntry
    /\ request = NoRequest

NextFlow ==
    \/ \E f \in FlowIds : InitUserFlow(f)
    \/ \E f \in FlowIds : SubmitUser(f)
    \/ \E f \in FlowIds : InitReauthFlow(f)
    \/ Callback
    \/ \E f \in FlowIds : FrontendConfigure(f)
    \/ \E f \in FlowIds : SubmitVehicle(f)

SpecFlow == InitFlow /\ [][NextFlow]_vars

TypeOKFlow ==
    /\ issued \in 0..MaxTokens
    /\ entries \in 0..MaxFlows
    /\ \A k \in 0..MaxTokens : callback_states[k] \in 0..MaxFlows
    /\ \A k \in Tokens : resumed[k] \in 0..2
    /\ \A f \in FlowIds : flow[f].state \in 0..issued /\ flow[f].terms_state \in 0..issued

(***************************************************************************)
(* api.async_request_token on its own: a call with any grant type and any  *)
(* of code, refresh token and access token missing, empty or given.        *)
(***************************************************************************)
GrantTypes == {"authorization_code", "refresh_token", "delete", "password"}

OptionalStrings(x) == {None, Some(""), Some(x)}

\* the lifetimes the vendor states, in days; the key may also be absent
ExpiresIn == {0, 2}

\* the successful payloads: refresh_token given, absent or empty
GrantPayloads ==
    { TokenResponse(FALSE, Some("A2"), TRUE, Some("R2"), Some("Bearer")),
      TokenResponse(FALSE, Some("A2"), FALSE, None, Some("Bearer")),
      TokenResponse(FALSE, Some("A2"), TRUE, Some(""), None) }

GrantResponses ==
    { TokenResponse(TRUE, None, FALSE, None, None) }
        \cup GrantPayloads
        \cup { WithExpiresIn(r, e) : r \in GrantPayloads, e \in ExpiresIn }

\* the days of the calls
GrantDays == {0, 363}

GrantCalls ==
    [grant_type : GrantTypes, code : OptionalStrings("code"),
     refresh_token : OptionalStrings("R1"), access_token : OptionalStrings("A1"),
     response : GrantResponses, now : GrantDays]

InitGrant ==
    /\ PollIdle
    /\ access_token = None
    /\ AuthIdle
    /\ RaceIdle(1)
    /\ FlowIdle
    /\ grant_call \in { Some(c) : c \in GrantCalls }
    /\ grant_result = None
    /\ OpIdle

\* the call is made
RequestToken ==
    /\ grant_result = None
    /\ grant_result' = Some(async_request_token(grant_call[1].grant_type,
                                                grant_call[1].code,
                                                grant_call[1].refresh_token,
                                                grant_call[1].access_token,
                                                grant_call[1].response,
                                                grant_call[1].now))
    /\ UNCHANGED <<grant_call, pollVars, authVars, flowVars, opVars, raceVars>>

NextGrant == RequestToken

SpecGrant == InitGrant /\ [][NextGrant]_vars

(***************************************************************************)
(* The vendor client, api.py, one call at a time.  A response is a         *)
(* transport failure, a body json() cannot parse, or a status with a       *)
(* parsed body.  The parsed body is a JSON object (which may hold errCode, *)
(* access_token and cars), a JSON array or null.  A call ends returning a  *)
(* value or raising; raised tells the exception.                           *)
(***************************************************************************)
WarningLabels ==
    {"low_fuel", "tire_pressure", "lamp_wire", "smart_key_battery",
     "washer_fluid", "brake_oil", "engine_oil"}

ClientOperations ==
    {"token", "profile", "car_list", "driving_range", "odometer",
     "ev_charging", "ev_battery"} \cup WarningLabels

\* the value of the key cars: no such key, a list, something else
CarsValues == {"absent", "list", "string"}

JsonObject(errCode, at, cars) ==
    [kind |-> "object", errCode |-> errCode, access_token |-> at, cars |-> cars]

JsonOther(kind) ==
    [kind |-> kind, errCode |-> FALSE, access_token |-> None, cars |-> "absent"]

Bodies ==
    { JsonObject(e, at, cars) :
          e \in BOOLEAN, at \in {None, Some("A2")}, cars \in CarsValues }
        \cup { JsonOther("array"), JsonOther("null") }

Statuses == {200, 500}

HttpResponse(transport_fails, parse_fails, status, body) ==
    [transport_fails |-> transport_fails, parse_fails |-> parse_fails,
     status |-> status, body |-> body]

ClientResponses ==
    { HttpResponse(TRUE, FALSE, 200, JsonOther("null")),
      HttpResponse(FALSE, TRUE, 200, JsonOther("null")),
      HttpResponse(FALSE, TRUE, 500, JsonOther("null")) }
        \cup { HttpResponse(FALSE, FALSE, st, b) : st \in Statuses, b \in Bodies }

Raised(exception) == [raised |-> exception, value |-> None]
Returned(value) == [raised |-> "none", value |-> Some(value)]

(***************************************************************************)
(* The part every client function has: the request, json(), and the test   *)
(* resp.status != 200 or "errCode" in payload with the payload.get calls   *)
(* of its branch.  On null the test "errCode" in payload raises TypeError; *)
(* payload.get raises AttributeError on an array and on null.              *)
(***************************************************************************)
check_response(response) ==
    IF response.transport_fails \/ response.parse_fails
    THEN "BluelinkAuthError"
    ELSE IF response.status # 200
         THEN IF response.body.kind = "object"
              THEN "BluelinkAuthError"
              ELSE "AttributeError"
         ELSE IF response.body.kind = "null"
              THEN "TypeError"
              ELSE IF response.body.errCode
                   THEN "BluelinkAuthError"
                   ELSE "none"

\* async_get_profile, async_get_driving_range, async_get_odometer,
\* async_get_ev_charging_status, async_get_ev_battery_status,
\* _async_get_warning
async_get_payload(response) ==
    IF check_response(response) # "none"
    THEN Raised(check_response(response))
    ELSE Returned(response.body)

async_get_car_list(response) ==
    IF check_response(response) # "none"
    THEN Raised(check_response(response))
    ELSE IF response.body.kind # "object"
         THEN Raised("AttributeError")
         ELSE CASE response.body.cars = "absent" -> Returned("empty_list")
                [] response.body.cars = "list" -> Returned("cars")
                [] OTHER -> Raised("BluelinkAuthError")

\* async_request_token for an authorization code, after the grant checks
request_token(response, t) ==
    IF check_response(response) # "none"
    THEN Raised(check_response(response))
    ELSE IF response.body.kind # "object"
         THEN Raised("AttributeError")
         ELSE LET token_result ==
                      async_request_token("authorization_code", Some("code"),
                          None, None,
                          TokenResponse(FALSE, response.body.access_token,
                                        FALSE, None, None), t)
              IN  IF token_result.error
                  THEN Raised("BluelinkAuthError")
                  ELSE Returned(token_result)

ClientCall(operation, response, t) ==
    CASE operation = "token" -> request_token(response, t)
      [] operation = "car_list" -> async_get_car_list(response)
      [] OTHER -> async_get_payload(response)

ClientCalls == [operation : ClientOperations, response : ClientResponses]

InitApi ==
    /\ PollIdle
    /\ access_token = None
    /\ AuthIdle
    /\ RaceIdle(1)
    /\ FlowIdle
    /\ GrantIdle
    /\ op_call \in { Some(c) : c \in ClientCalls }
    /\ op_result = None

\* the call is made
CallClient ==
    /\ op_result = None
    /\ op_result' = Some(ClientCall(op_call[1].operation, op_call[1].response,
                                    today))
    /\ UNCHANGED <<op_call, pollVars, authVars, flowVars, grantVars, raceVars>>

NextApi == CallClient

SpecApi == InitApi /\ [][NextApi]_vars

(***************************************************************************)
(* const.py, the car type functions alone: normalize_car_type and          *)
(* is_ev_capable_car_type applied to a carType value, which is missing,    *)
(* or a type code in upper, lower or mixed case, a fragment of one or the  *)
(* empty string, each with or without a blank before and after it.         *)
(***************************************************************************)
TypeWords ==
    { <<>>, <<"e", "v">>, <<"E", "V">>, <<"E", "v">>,
      <<"p", "h", "e", "v">>, <<"P", "H", "E", "V">>,
      <<"f", "c", "e", "v">>, <<"F", "C", "E", "V">>,
      <<"h", "e", "v">>, <<"H", "E", "V">>,
      <<"g", "n">>, <<"G", "N">>, <<"e">>, <<"V">>,
      <<"e", "V">>, <<"P", "h", "e", "v">> }

Blanks == { <<>>, <<" ">> }

CarTypeStrings == { l \o w \o r : l \in Blanks, w \in TypeWords, r \in Blanks }

CarTypeCalls == { None } \cup { Some(t) : t \in CarTypeStrings }

InitConst ==
    /\ PollIdle
    /\ access_token = None
    /\ AuthIdle
    /\ RaceIdle(1)
    /\ FlowIdle
    /\ GrantIdle
    /\ op_call \in { Some(c) : c \in CarTypeCalls }
    /\ op_result = None

\* both functions are applied to the value, and normalize_car_type to its
\* own result
ClassifyCarType ==
    /\ op_result = None
    /\ op_result' =
           Some([normalized |-> normalize_car_type(op_call[1]),
                 renormalized |->
                     normalize_car_type(normalize_car_type(op_call[1])),
                 ev_capable |-> is_ev_capable_car_type(op_call[1])])
    /\ UNCHANGED <<op_call, pollVars, authVars, flowVars, grantVars, raceVars>>

NextConst == ClassifyCarType

SpecConst == InitConst /\ [][NextConst]_vars

(***************************************************************************)
(* BluelinkCoordinator._async_fetch_warnings, endpoint by endpoint, as     *)
(* _async_update_data and async_force_refresh call it for a coordinator    *)
(* built for a car with the given carType.  failAt is the endpoint whose   *)
(* request raises.                                                         *)
(***************************************************************************)
WarningOrder ==
    <<"low_fuel", "tire_pressure", "lamp_wire", "smart_key_battery",
      "washer_fluid", "brake_oil", "engine_oil">>

PureEv == Some(<<"E", "V">>)

IndexIn(seq, x) ==
    IF \E i \in 1..Len(seq) : seq[i] = x
    THEN CHOOSE i \in 1..Len(seq) : seq[i] = x
    ELSE 0

\* faulty variant: the engine oil endpoint is called for every car
async_fetch_warnings_all(ct, failAt, p) ==
    LET endpoints == WarningOrder
        k == IndexIn(endpoints, failAt)
    IN  IF k > 0
        THEN [requested |-> SubSeq(endpoints, 1, k), raised |-> TRUE,
              warnings |-> None]
        ELSE [requested |-> endpoints, raised |-> FALSE,
              warnings |-> Some([l \in WarningLabels |-> Some(p)])]

async_fetch_warnings(ct, failAt, p) ==
    LET endpoints == IF ct # PureEv
                     THEN WarningOrder
                     ELSE SubSeq(WarningOrder, 1, Len(WarningOrder) - 1)
        k == IndexIn(endpoints, failAt)
    IN  IF k > 0
        THEN [requested |-> SubSeq(endpoints, 1, k), raised |-> TRUE,
              warnings |-> None]
        ELSE [requested |-> endpoints, raised |-> FALSE,
              warnings |-> Some([l \in WarningLabels |->
                                    IF l = "engine_oil" /\ ct = PureEv
                                    THEN None
                                    ELSE Some(p)])]

WarningCalls ==
    [car : CarTypeCalls, mode : {"incremental", "forced"},
     failAt : WarningLabels \cup {"none"}]

InitWarnings ==
    /\ PollIdle
    /\ access_token = None
    /\ AuthIdle
    /\ RaceIdle(1)
    /\ FlowIdle
    /\ GrantIdle
    /\ op_call \in { Some(c) : c \in WarningCalls }
    /\ op_result = None

\* the warnings family of a cycle or of a forced refresh is fetched; the
\* cycle turns the exception into UpdateFailed, the forced refresh lets it
\* through
FetchWarnings ==
    /\ op_result = None
    /\ LET car_type_ == normalize_car_type(op_call[1].car)
           r == async_fetch_warnings(car_type_, op_call[1].failAt, vendor)
       IN  op_result' =
               Some([car_type |-> car_type_, requested |-> r.requested,
                     warnings |-> r.warnings,
                     outcome |-> IF ~r.raised THEN "ok"
                                 ELSE IF op_call[1].mode = "incremental"
                                      THEN "UpdateFailed"
                                      ELSE "raised"])
    /\ UNCHANGED <<op_call, pollVars, authVars, flowVars, grantVars, raceVars>>

NextWarnings == FetchWarnings

SpecWarnings == InitWarnings /\ [][NextWarnings]_vars

(***************************************************************************)
(* Vocabulary of the properties of the polling model.  In an action        *)
(* formula the unprimed variables are the coordinator before a run and     *)
(* the primed ones the coordinator after it.                               *)
(***************************************************************************)
Pos(f) == CHOOSE i \in 1..Len(Order) : Order[i] = f
Requested(r) == { r.requested[i] : i \in 1..Len(r.requested) }
Applicable(ev) == IF ev THEN Families ELSE Families \ EvFamilies
ApplicableOrder(ev) == SelectSeq(Order, LAMBDA f : f \in Applicable(ev))
IsPrefix(a, b) == Len(a) <= Len(b) /\ a = SubSeq(b, 1, Len(a))

\* the family whose request raised in run r, "none" when no request raised
FailedFamily(r) ==
    IF r.outcome \in {"UpdateFailed", "raised"} /\ r.requested # <<>>
    THEN r.requested[Len(r.requested)]
    ELSE "none"

\* run r got as far as family f: no request before f's raised
Reached(r, f) ==
    r.ready /\ (FailedFamily(r) = "none" \/ Pos(f) <= Pos(FailedFamily(r)))

\* the step is an incremental cycle / a forced refresh / either
IncStep == run'.kind = "incremental" /\ run'.seq # run.seq
ForcedStep == run'.kind = "forced" /\ run'.seq # run.seq
RunStep == IncStep \/ ForcedStep

\* age of family f's last fetch at the start of the run (f fetched before)
Age(f) == now - last[f][1]

(***************************************************************************)
(* C1 as stated.  For every family fetched at t1 (its last_fetched_at),    *)
(* an incremental cycle started at t2 issues no request for it and         *)
(* publishes its cached value when t2 - t1 is below the family's           *)
(* interval, and issues a request for it when t2 - t1 has reached the      *)
(* interval.                                                               *)
(***************************************************************************)
C1_AsStated ==
    [][IncStep =>
         \A f \in Families :
            last[f] # None =>
              /\ Age(f) < Interval(f) =>
                    /\ f \notin Requested(run')
                    /\ run'.published # None
                    /\ run'.published[1].values[f] = cached[f]
              /\ Age(f) >= Interval(f) => f \in Requested(run')]_vars

(***************************************************************************)
(* C1, corrected.  For every family applicable to the car and fetched at   *)
(* t1, an incremental cycle started at t2: when t2 - t1 is below the       *)
(* interval it issues no request for the family, keeps its cached value    *)
(* and clock, and publishes the cached value if the cycle completes; when  *)
(* t2 - t1 has reached the interval it issues a request for the family     *)
(* unless a request of an earlier family in the cycle failed, and on       *)
(* completion the family's clock is t2 and the fetched value is            *)
(* published.                                                              *)
(***************************************************************************)
C1_IntervalReuse ==
    [][IncStep =>
         \A f \in Applicable(is_ev_capable) :
            last[f] # None =>
              /\ Age(f) < Interval(f) =>
                    /\ f \notin Requested(run')
                    /\ cached'[f] = cached[f]
                    /\ last'[f] = last[f]
                    /\ run'.outcome = "ok" =>
                          /\ run'.published # None
                          /\ run'.published[1].values[f] = cached[f]
              /\ (Age(f) >= Interval(f) /\ Reached(run', f)) =>
                    /\ f \in Requested(run')
                    /\ run'.outcome = "ok" =>
                          /\ last'[f] = Some(now)
                          /\ cached'[f] = Some(vendor)
                          /\ run'.published[1].values[f] = Some(vendor)]_vars

\* C1: a cycle has reused the charging status fetched 5 minutes before it
\* and fetched the battery status again
C1_Witness ==
    /\ run.kind = "incremental" /\ run.outcome = "ok"
    /\ now > 0
    /\ last["charging_status"] = Some(now - 5)
    /\ "charging_status" \notin Requested(run)
    /\ run.published[1].values["charging_status"] = cached["charging_status"]
    /\ "battery_status" \in Requested(run)
    /\ last["battery_status"] = Some(now)

(***************************************************************************)
(* C2 as stated.  In an incremental cycle run with an access token and a   *)
(* selected car, every applicable family whose last_fetched_at is unset    *)
(* is fetched; the first cycle after construction issues a request.        *)
(***************************************************************************)
C2_AsStated ==
    [][(IncStep /\ access_token # None /\ selected_car_id # None) =>
         /\ \A f \in Applicable(is_ev_capable) :
               last[f] = None => f \in Requested(run')
         /\ phase = "constructed" => run'.requested # <<>>]_vars

(***************************************************************************)
(* C2, corrected.  In an incremental cycle run with an access token and a  *)
(* selected car, every applicable family whose last_fetched_at is unset    *)
(* is requested unless a request of an earlier family in the cycle         *)
(* failed, and is fetched (value cached, clock set to the cycle's start)   *)
(* unless its own request failed too; the first cycle after construction   *)
(* issues at least the driving-range request.                              *)
(***************************************************************************)
C2_UnsetIsFetched ==
    [][(IncStep /\ access_token # None /\ selected_car_id # None) =>
         /\ \A f \in Applicable(is_ev_capable) :
               (last[f] = None /\ Reached(run', f)) =>
                  /\ f \in Requested(run')
                  /\ FailedFamily(run') # f =>
                        cached'[f] = Some(vendor) /\ last'[f] = Some(now)
         /\ phase = "constructed" =>
               /\ run'.requested # <<>>
               /\ run'.requested[1] = "driving_range"]_vars

\* C2: the first cycle of an EV-capable car has fetched all five families
C2_Witness ==
    /\ now = 0
    /\ run.kind = "incremental" /\ run.outcome = "ok"
    /\ run.requested = Order
    /\ \A f \in Families : last[f] = Some(0) /\ cached[f] # None

\* car_type is a known, non-blank type code
KnownType(ct) == ct # None /\ ct[1] # <<>>

\* family f is due at the start of the run
Due(f) == last[f] = None \/ Age(f) >= Interval(f)

(***************************************************************************)
(* C3 as stated.  A car whose type code is outside the EV-capable set      *)
(* never triggers a battery or charging request in an incremental cycle;   *)
(* a car whose type code is in the set has them requested whenever they    *)
(* are due.                                                                *)
(***************************************************************************)
C3_AsStated ==
    [][(IncStep /\ access_token # None /\ selected_car_id # None) =>
         /\ (KnownType(car_type) /\ car_type[1] \notin EV_CAPABLE_CAR_TYPES) =>
               Requested(run') \cap EvFamilies = {}
         /\ (KnownType(car_type) /\ car_type[1] \in EV_CAPABLE_CAR_TYPES) =>
               \A f \in EvFamilies : Due(f) => f \in Requested(run')]_vars

(***************************************************************************)
(* C3, corrected.  In an incremental cycle a car whose type code is known  *)
(* and outside the EV-capable set never triggers a battery or charging     *)
(* request; a car whose type code is in the set, or is missing or blank,   *)
(* has each of them requested when it is due, unless a request of an       *)
(* earlier family in the cycle failed.                                     *)
(***************************************************************************)
C3_EvGating ==
    [][(IncStep /\ access_token # None /\ selected_car_id # None) =>
         /\ (KnownType(car_type) /\ car_type[1] \notin EV_CAPABLE_CAR_TYPES) =>
               /\ ~is_ev_capable
               /\ Requested(run') \cap EvFamilies = {}
         /\ (~KnownType(car_type) \/ car_type[1] \in EV_CAPABLE_CAR_TYPES) =>
               /\ is_ev_capable
               /\ \A f \in EvFamilies :
                     (Due(f) /\ Reached(run', f)) => f \in Requested(run')]_vars

\* C3: a cycle of an HEV car has completed without an EV request, its
\* other families fetched
C3_Witness ==
    /\ car_type = Some(<<"H", "E", "V">>)
    /\ run.kind = "incremental" /\ run.outcome = "ok"
    /\ run.requested = <<"driving_range", "odometer", "warnings">>
    /\ cached["battery_status"] = None /\ cached["charging_status"] = None

(***************************************************************************)
(* C4 as stated.  When a vendor request fails during an incremental        *)
(* cycle, the cycle ends with UpdateFailed, publishes no snapshot and      *)
(* leaves every family's cached value and last_fetched_at as they were     *)
(* before the cycle.                                                       *)
(***************************************************************************)
C4_AsStated ==
    [][(IncStep /\ FailedFamily(run') # "none") =>
         /\ run'.outcome = "UpdateFailed"
         /\ run'.published = None
         /\ cached' = cached
         /\ last' = last]_vars

(***************************************************************************)
(* C4, corrected.  When a vendor request fails during an incremental       *)
(* cycle, the cycle ends with UpdateFailed and publishes no snapshot; the  *)
(* families fetched earlier in the cycle keep the value just fetched and   *)
(* the cycle's start as last_fetched_at; the failing family and the        *)
(* families after it keep the cached value and last_fetched_at they had    *)
(* before the cycle, except that the battery and charging entries of a     *)
(* car that is not EV-capable are unset once the cycle is past them.       *)
(***************************************************************************)
C4_FailedCycle ==
    [][(IncStep /\ FailedFamily(run') # "none") =>
         /\ run'.outcome = "UpdateFailed"
         /\ run'.published = None
         /\ \A f \in Families :
               IF f \in Requested(run') \ {FailedFamily(run')}
               THEN cached'[f] = Some(vendor) /\ last'[f] = Some(now)
               ELSE IF /\ ~is_ev_capable
                       /\ f \in EvFamilies
                       /\ Pos(FailedFamily(run')) > Pos("charging_status")
                    THEN cached'[f] = None /\ last'[f] = None
                    ELSE cached'[f] = cached[f] /\ last'[f] = last[f]]_vars

\* C4: a cycle has failed at its second request, the first family fetched
C4_Witness ==
    /\ run.kind = "incremental" /\ run.outcome = "UpdateFailed"
    /\ Len(run.requested) = 2
    /\ last[run.requested[1]] = Some(now)
    /\ cached[run.requested[1]] = Some(vendor)
    /\ last[run.requested[2]] # Some(now)

(***************************************************************************)
(* C5.  A run of the coordinator, incremental or forced, whatever request  *)
(* of it fails, leaves non-null every cached value that was non-null, for  *)
(* the families applicable to the car.                                     *)
(***************************************************************************)
C5_NeverDiscarded ==
    [][RunStep =>
         \A f \in Applicable(is_ev_capable) :
            cached[f] # None => cached'[f] # None]_vars

\* C5: the request of a family has failed and its cached value is still there
C5_Witness ==
    /\ run.outcome \in {"UpdateFailed", "raised"}
    /\ FailedFamily(run) # "none"
    /\ cached[FailedFamily(run)] # None
    /\ last[FailedFamily(run)] # None

(***************************************************************************)
(* C6.  After a forced refresh that succeeded, the last_fetched_at of      *)
(* every family applicable to the car is the start of the refresh, so the  *)
(* family is not due at any instant less than its interval later.          *)
(***************************************************************************)
C6_ForcedStamps ==
    (run.kind = "forced" /\ run.outcome = "ok") =>
       \A f \in Applicable(is_ev_capable) :
          /\ last[f] = Some(now)
          /\ \A t \in Instants :
                (t >= now /\ t - now < Interval(f)) =>
                   ~should_fetch(last[f], Interval(f), t)

\* C6: a forced refresh of an EV-capable car has succeeded, after the first
\* instant
C6_Witness ==
    /\ run.kind = "forced" /\ run.outcome = "ok"
    /\ is_ev_capable
    /\ now > 0
    /\ \A f \in Families : last[f] = Some(now)

(***************************************************************************)
(* C7 as stated.  A forced refresh run with an access token and a          *)
(* selected car issues one request for every family applicable to the      *)
(* car, and on success publishes one snapshot.                             *)
(***************************************************************************)
C7_AsStated ==
    [][(ForcedStep /\ access_token # None /\ selected_car_id # None) =>
         /\ Requested(run') = Applicable(is_ev_capable)
         /\ Len(run'.requested) = Cardinality(Applicable(is_ev_capable))
         /\ run'.outcome = "ok" => run'.published # None]_vars

(***************************************************************************)
(* C7, corrected.  A forced refresh run with an access token and a         *)
(* selected car requests the families applicable to the car one by one in  *)
(* polling order, whatever their last_fetched_at, up to the first request  *)
(* that fails; when none fails every applicable family has been requested  *)
(* once and one snapshot holding the values just fetched is published;     *)
(* when one fails nothing is published.                                    *)
(***************************************************************************)
C7_ForcedRequestsAll ==
    [][(ForcedStep /\ access_token # None /\ selected_car_id # None) =>
         /\ run'.requested # <<>>
         /\ IsPrefix(run'.requested, ApplicableOrder(is_ev_capable))
         /\ FailedFamily(run') = "none" =>
               /\ run'.requested = ApplicableOrder(is_ev_capable)
               /\ run'.outcome = "ok"
               /\ \A f \in Applicable(is_ev_capable) : cached'[f] = Some(vendor)
               /\ run'.published =
                     Some(Snapshot(cached', access_token, car, selected_car_id))
         /\ FailedFamily(run') # "none" =>
               /\ run'.outcome = "raised"
               /\ run'.published = None]_vars

\* C7: a forced refresh has requested all five families and published
C7_Witness ==
    /\ run.kind = "forced" /\ run.outcome = "ok"
    /\ run.requested = Order
    /\ run.published # None
    /\ run.published[1].values = cached

(***************************************************************************)
(* C8 as stated.  Once an evaluation has found the entry's stored          *)
(* refresh_token_expires_at to put the current time at or past issuance +  *)
(* 364 days, the evaluations have together created exactly one             *)
(* notification and started exactly one re-authorization flow for the      *)
(* credential set, however many evaluations follow.                        *)
(***************************************************************************)
C8_AsStated ==
    hist.evaluated_at_threshold => (notifications = 1 /\ flows = 1)

(***************************************************************************)
(* C9 as stated.  For a refresh token obtained at t0 by the authorization  *)
(* flow, with the entry loaded since t0 and the timer running, once a      *)
(* scheduled refresh has run at or after t0 + 364 days a re-authorization  *)
(* request has been emitted.                                               *)
(***************************************************************************)
C9_AsStated ==
    ( /\ hist.obtained_at # None
      /\ entry_loaded
      /\ hist.loaded_since = hist.obtained_at
      /\ hist.last_refresh # None
      /\ hist.last_refresh[1] >=
            hist.obtained_at[1] + REFRESH_TOKEN_REAUTH_THRESHOLD_DAYS )
    => (notifications >= 1 /\ flows >= 1)

(***************************************************************************)
(* C10 as stated.  After a re-authorization has completed, once an         *)
(* evaluation has found the new credential set at or past its threshold a  *)
(* re-authorization request has been emitted for it.                       *)
(***************************************************************************)
C10_AsStated ==
    (hist.generation > 1 /\ hist.evaluated_at_threshold)
    => (notifications >= 1 /\ flows >= 1)

(***************************************************************************)
(* Vocabulary of the properties of the credential model.  The 24h timer    *)
(* is the only step that moves the day on while the entry is loaded.       *)
(***************************************************************************)
RefreshStep == entry_loaded /\ today' # today

(***************************************************************************)
(* C11, as stated: after every scheduled refresh attempt that holds a      *)
(* refresh token, whether the token exchange succeeded or failed, the      *)
(* re-authorization threshold is evaluated, and a request has been emitted *)
(* when the day is at or past the threshold.  The code returns from a      *)
(* failed exchange before _maybe_request_reauth, so this is violated.      *)
(***************************************************************************)
C11_AsStated ==
    (entry_loaded /\ hist.last_outcome \in {"ok", "failed"})
        => /\ hist.last_evaluated
           /\ ThresholdReached(entry_data, today) => EntryId \in reauth_notified

(***************************************************************************)
(* C12: a scheduled refresh that holds no refresh token calls the token    *)
(* endpoint not at all, and one whose exchange raises BluelinkAuthError    *)
(* ends normally; in both cases the entry's credentials (access token,     *)
(* refresh token, token type, both expiry timestamps) and the              *)
(* coordinator's tokens are what they were, and the entry stays loaded     *)
(* with its 24h timer, so that the next tick attempts again.               *)
(***************************************************************************)
C12_FailedRefreshKeeps ==
    [][(RefreshStep /\ hist'.last_outcome \in {"no_token", "failed"})
          => /\ entry_data' = entry_data
             /\ access_token' = access_token
             /\ refresh_token' = refresh_token
             /\ hist'.last_outcome = "no_token" => ~hist'.token_requested
             /\ entry_loaded'
             /\ hist'.last_refresh = Some(today')]_vars

\* the tick after a failed exchange attempted again, and failed again
C12_Witness ==
    /\ entry_loaded
    /\ hist.last_outcome = "failed"
    /\ hist.token_requested
    /\ hist.last_refresh = Some(today)
    /\ today >= 363
    /\ entry_data.access_token = Some("A1")
    /\ refresh_token = Some("R1")

(***************************************************************************)
(* Vocabulary of the properties of the polling cycle next to the token     *)
(* timer: a successful refresh, and a request the cycle in flight issues.  *)
(***************************************************************************)
SwapStep == RefreshStep /\ hist'.last_outcome = "ok"
RequestStep == cycle'.requests = cycle.requests + 1

(***************************************************************************)
(* C13: after a scheduled refresh succeeds, the entry's access token and   *)
(* the coordinator's access token both equal the token the vendor          *)
(* returned, and every request of a polling cycle that began after that    *)
(* refresh, issued before the next successful refresh, carries that token. *)
(***************************************************************************)
C13_SwapVisible ==
    [][/\ SwapStep => /\ hist'.returned # None
                      /\ entry_data'.access_token = hist'.returned
                      /\ access_token' = hist'.returned
       /\ (RequestStep /\ hist.swapped_at # None
              /\ cycle.started = hist.swapped_at)
            => cycle'.carried = hist.returned]_vars

\* a cycle that began after the second successful refresh, whose token
\* differs from the first one's, has issued all its requests
C13_Witness ==
    /\ entry_loaded
    /\ hist.swapped_at # None /\ cycle.started = hist.swapped_at
    /\ hist.returned = Some("A3")
    /\ cycle.at = 0 /\ ~cycle.raised
    /\ cycle.requests = Len(Order) - 1 + WarningEndpoints(car_type)
    /\ cycle.carried = Some("A3")
    /\ today > 1

(***************************************************************************)
(* Vocabulary of the properties of the authorization flows.  A callback    *)
(* request that is answered changes request or resumed; Resumes(f) is a    *)
(* callback whose async_configure ran a step of flow f, Drops(f) one that  *)
(* popped a state of flow f and did not resume it.                         *)
(***************************************************************************)
CallbackStep == request' # request \/ resumed' # resumed
Resumes(f) == CallbackStep /\ request'.configured /\ request'.flow_id = f
Drops(f) == CallbackStep /\ ~request'.configured /\ request'.flow_id = f
Live(f) == flow[f].step \notin {"none", "finished"}
Persists(f) == entry'.writes # entry.writes /\ entry'.by = f

(***************************************************************************)
(* C14: a callback that presents no state, or a state token that was never *)
(* issued, is answered with an error status and changes nothing: no flow   *)
(* is resumed or aborted, no entry of callback_states is added, removed or *)
(* remapped, no configuration is written.                                  *)
(***************************************************************************)
C14_UnknownStateRejected ==
    [][(CallbackStep /\ (request'.state = 0 \/ request'.state > issued))
          => /\ request'.status = 400
             /\ ~request'.configured
             /\ UNCHANGED <<flow, callback_states, issued, resumed, entries,
                            entry>>]_vars

\* a token that was never issued was answered 400 while both state tokens
\* of a flow at its terms step stay mapped to the flow
C14_Witness ==
    /\ issued = 2
    /\ request.state = MaxTokens
    /\ request.status = 400
    /\ flow[1].step = "terms"
    /\ callback_states[flow[1].state] = 1
    /\ callback_states[flow[1].terms_state] = 1

(***************************************************************************)
(* C15, as stated: each issued state token resumes its flow at most once.  *)
(* async_step_auth maps _state to the flow again when it enters the terms  *)
(* step (config_flow.py 244-245), so the OAuth callback's state is         *)
(* accepted a second time and this is violated.                            *)
(***************************************************************************)
C15_AsStated == \A k \in Tokens : resumed[k] <= 1

C18_SingleConfiguration ==
    [][/\ entries' <= 1
       /\ \A f \in FlowIds :
            /\ (flow[f].step = "user" /\ flow'[f].step # "user" /\ entries > 0)
                 => /\ flow'[f].step = "finished" /\ flow'[f].result = "abort"
                    /\ UNCHANGED <<entries, entry>>
            /\ (flow[f].kind = "none" /\ flow'[f].kind = "reauth" /\ ~InProgress(f))
                 => (flow'[f].step = "auth" \/ flow'[f].result = "raised")
            /\ (Persists(f) /\ flow[f].reauth_entry)
                 => /\ entries = 1 /\ entries' = 1
                    /\ entry'.reloads = entry.reloads + 1
                    /\ flow'[f].reason = "reauth_successful"]_vars

\* a second user flow was aborted as already configured
C18_Witness ==
    /\ entries = 1
    /\ flow[1].result = "create_entry"
    /\ flow[2].kind = "user"
    /\ flow[2].reason = "already_configured"

(***************************************************************************)
(* C19, as stated: every failure of an in-flight flow ends the flow: an    *)
(* accepted callback for a live flow that reports errCode, or has neither  *)
(* code nor userId, leaves the flow aborted, and so does a step whose      *)
(* exchange, profile or terms-step car list fails.  The view answers the   *)
(* first two without touching the flow, whose state it has popped, so this *)
(* is violated.                                                            *)
(***************************************************************************)
C19_AsStated ==
    [][\A f \in FlowIds :
         /\ (Drops(f) /\ Live(f))
              => flow'[f].step \in {"abort_done", "finished"}
         /\ (Resumes(f) /\ flow[f].step = "auth" /\ ~flow'[f].pending_auth_data)
              => flow'[f].step = "abort_done"
         /\ (Resumes(f) /\ flow[f].step = "terms" /\ flow'[f].listed = "fails")
              => flow'[f].step = "abort_done"]_vars

(***************************************************************************)
(* C20: a token exchange called with grant refresh_token and no refresh    *)
(* token, with grant delete and no access token, with grant                *)
(* authorization_code and no code, or with any other grant type raises     *)
(* BluelinkAuthError and sends no request to the token endpoint.           *)
(***************************************************************************)
C20_GrantChecked ==
    grant_result # None =>
        LET c == grant_call[1]
            r == grant_result[1]
            missing ==
                \/ c.grant_type = "refresh_token" /\ ~Truthy(c.refresh_token)
                \/ c.grant_type = "delete" /\ ~Truthy(c.access_token)
                \/ c.grant_type = "authorization_code" /\ ~Truthy(c.code)
                \/ c.grant_type \notin {"refresh_token", "delete",
                                        "authorization_code"}
        IN  missing => r.error /\ ~r.called

\* the refresh_token grant was called without a refresh token, the other
\* arguments given and the endpoint ready to answer
C20_Witness ==
    /\ grant_result # None
    /\ grant_call[1].grant_type = "refresh_token"
    /\ grant_call[1].refresh_token = None
    /\ grant_call[1].code = Some("code")
    /\ grant_call[1].access_token = Some("A1")
    /\ ~grant_call[1].response.fails
    /\ grant_result[1].error

(***************************************************************************)
(* C21: a successful token response without refresh_token field leaves the *)
(* refresh token the caller supplied; so, after any number of successful   *)
(* scheduled refreshes whose responses all omit the field, the entry's     *)
(* refresh token, and the coordinator's while the entry is loaded, is      *)
(* still the one the credentials came with.                                *)
(***************************************************************************)
C21_RefreshTokenKept ==
    hist.omitted_only =>
        /\ entry_data.refresh_token = hist.original
        /\ entry_loaded => refresh_token = hist.original

\* two refreshes succeeded, both without refresh_token in the payload
C21_Witness ==
    /\ entry_loaded
    /\ hist.omitted_only
    /\ hist.last_outcome = "ok"
    /\ hist.swapped_at = Some(today)
    /\ today = 363
    /\ entry_data.access_token = Some("A2")
    /\ entry_data.refresh_token = Some("R1")
    /\ refresh_token = Some("R1")

C23_AsStated ==
    op_result # None =>
        LET response == op_call[1].response
            parsed == ~response.transport_fails /\ ~response.parse_fails
        IN  /\ (parsed /\ response.status = 200 /\ ~response.body.errCode)
                   => op_result[1] = Returned(response.body)
            /\ (~parsed \/ response.status # 200 \/ response.body.errCode)
                   => op_result[1].raised = "BluelinkAuthError"

(***************************************************************************)
(* C24: an incremental cycle or a forced refresh started while the access  *)
(* token or the selected car id is missing ends with UpdateFailed, sends   *)
(* no request to the vendor, leaves every cached value and every           *)
(* last_fetched_at as it was and publishes nothing.                        *)
(***************************************************************************)
C24_MissingCredentials ==
    [][(RunStep /\ (access_token = None \/ selected_car_id = None)) =>
          /\ run'.outcome = "UpdateFailed"
          /\ ~run'.ready
          /\ run'.requested = <<>>
          /\ cached' = cached
          /\ last' = last
          /\ run'.published = None]_vars

\* the button is pressed on a loaded entry that has no access token
C24_Witness ==
    /\ phase = "loaded"
    /\ access_token = None
    /\ selected_car_id # None
    /\ run.kind = "forced"
    /\ run.outcome = "UpdateFailed"
    /\ run.requested = <<>>
    /\ refresh_requested

\* sensor.py _is_charging: of the two payloads, p2 is the one whose
\* batteryCharge is true
is_charging(v) == v = Some("p2")

(***************************************************************************)
(* C25 as stated.  While the cached charging status reports charging the   *)
(* charging family is polled at an interval below CHARGING_INTERVAL: an    *)
(* incremental cycle of an EV-capable car that starts after the fetch of   *)
(* that status, gets as far as the charging family and finds it younger    *)
(* than CHARGING_INTERVAL requests it again.                               *)
(***************************************************************************)
C25_AsStated ==
    [][(/\ IncStep
        /\ is_ev_capable
        /\ is_charging(cached["charging_status"])
        /\ last["charging_status"] # None
        /\ Age("charging_status") > 0
        /\ Age("charging_status") < CHARGING_INTERVAL
        /\ Reached(run', "charging_status"))
          => "charging_status" \in Requested(run')]_vars

\* a step in which the 24h timer's callback _async_refresh_tokens runs
TimerStep == hist'.last_refresh # None /\ hist'.last_refresh # hist.last_refresh

C27_AsStated ==
    op_result # None =>
        LET t == op_call[1]
            res == op_result[1]
            missing == t = None \/ t = Some(<<>>)
            trimmed == IF t = None THEN <<>> ELSE UpperStr(Strip(t[1]))
        IN  /\ res.ev_capable <=> (missing \/ trimmed \in EV_CAPABLE_CAR_TYPES)
            /\ trimmed \in { <<"H", "E", "V">>, <<"G", "N">> } => ~res.ev_capable
            /\ t = None => res.normalized = None
            /\ res.renormalized = res.normalized

C29_UpdateTokensFrame ==
    [][SwapStep =>
          /\ access_token' = entry_data'.access_token
          /\ refresh_token' = entry_data'.refresh_token
          /\ UNCHANGED <<selected_car_id, car, car_type, is_ev_capable,
                         cached, last, cycle>>]_vars

\* the tokens were swapped while a cycle was in flight that had already
\* fetched the driving range: the cache is still there
C29_Witness ==
    /\ hist.last_outcome = "ok"
    /\ hist.swapped_at = Some(today)
    /\ access_token = Some("A2")
    /\ cycle.at = 2
    /\ cycle.started # hist.swapped_at
    /\ cached["driving_range"] # None
    /\ last["driving_range"] # None

(***************************************************************************)
(* C30: the requests of one run, incremental or forced, are issued in the  *)
(* order driving range, battery, charging, odometer, warnings, and each    *)
(* is issued only after the one before it has completed: every request of  *)
(* the run but the last has been answered and its payload stored, so at    *)
(* most one request of the run is unanswered at any time.                  *)
(***************************************************************************)
C30_FixedOrder ==
    [][RunStep =>
          LET req == run'.requested
          IN  /\ \A i, j \in 1..Len(req) : i < j => Pos(req[i]) < Pos(req[j])
              /\ \A i \in 1..(Len(req) - 1) : cached'[req[i]] = Some(vendor)
              /\ run'.outcome = "ok" =>
                     \A i \in 1..Len(req) : cached'[req[i]] = Some(vendor)]_vars

\* a scheduled cycle of an EV-capable car requested all five families and
\* the last request, the warnings, failed
C30_Witness ==
    /\ run.kind = "incremental"
    /\ phase = "loaded"
    /\ is_ev_capable
    /\ run.requested = Order
    /\ run.outcome = "UpdateFailed"
    /\ cached["odometer"] = Some(vendor)

(***************************************************************************)
(* Vocabulary of the re-authorization threshold.  Evaluated is a step in   *)
(* which _maybe_request_reauth runs: a setup, a successful scheduled       *)
(* refresh, or the reload that ends a re-authorization.  Emitted is a step *)
(* in which it notifies and starts a flow.                                 *)
(***************************************************************************)
Threshold(data) ==
    data.refresh_token_expires_at[1] - REFRESH_TOKEN_DEFAULT_EXPIRES_IN
        + REFRESH_TOKEN_REAUTH_THRESHOLD_DAYS

Evaluated ==
    \/ ~entry_loaded /\ entry_loaded'
    \/ hist'.generation # hist.generation
    \/ TimerStep /\ hist'.last_evaluated

Emitted == EntryId \in reauth_notified' /\ EntryId \notin reauth_notified

(***************************************************************************)
(* C31 as stated.  No step emits a re-authorization request while the day  *)
(* is before (refresh_token_expires_at - 365 days) + 364 days, or while    *)
(* the entry stores no refresh_token_expires_at; and once the threshold    *)
(* has been evaluated on the very day of the threshold, the request has    *)
(* been emitted for the credential set.                                    *)
(***************************************************************************)
C31_AsStated ==
    [][/\ (\/ entry_data'.refresh_token_expires_at = None
           \/ today' < Threshold(entry_data')) => ~Emitted
       /\ (/\ Evaluated
           /\ entry_data'.refresh_token_expires_at # None
           /\ today' = Threshold(entry_data'))
             => (notifications' >= 1 /\ flows' >= 1)]_vars

(***************************************************************************)
(* C32 as stated.  Every request an incremental cycle issues carries the   *)
(* access token the coordinator held when the cycle started, also when a   *)
(* scheduled token refresh completes between two of its requests.          *)
(***************************************************************************)
C32_AsStated ==
    [][RequestStep => cycle'.carried = cycle.initial]_vars
(***************************************************************************)
(* C33: for a car whose classification does not change, the time a family  *)
(* was last fetched never moves backwards, however the scheduled cycles    *)
(* and a forced refresh suspended on a request interleave.                 *)
(***************************************************************************)
C33_AsStated ==
    [][\A f \in Families :
          last[f] # None => (last'[f] # None /\ last'[f][1] >= last[f][1])]_vars

(***************************************************************************)
(* C34: once a re-authorization has persisted new credentials, a scheduled *)
(* refresh that was started with the refresh token of the credentials      *)
(* before it does not overwrite the persisted tokens and expiry times when *)
(* it completes.                                                           *)
(***************************************************************************)
C34_AsStated ==
    [][(/\ refresh.at = 1
        /\ refresh'.at = 0
        /\ refresh.generation # hist.generation) => entry_data' = entry_data]_vars

(***************************************************************************)
(* C35: a flow waiting in the external terms step goes on to the car       *)
(* listing only through a callback that presents the terms state token     *)
(* generated for that step; a callback presenting the flow's OAuth state   *)
(* token does not take it past the terms step.                             *)
(***************************************************************************)
C35_AsStated ==
    [][\A f \in FlowIds :
          (flow[f].step = "terms" /\ flow'[f].step = "vehicle_done")
              => (CallbackStep /\ request'.state = flow[f].terms_state)]_vars

(***************************************************************************)
(* C36: when an authorization flow has reached its end through the normal  *)
(* callback sequence (the configuration persisted, or merged on            *)
(* re-authorization, no state token having resumed a flow twice), the      *)
(* state-token map holds no token that maps to the flow's id.              *)
(***************************************************************************)
C36_AsStated ==
    \A f \in FlowIds :
        (/\ flow[f].step = "finished"
         /\ \/ flow[f].result = "create_entry"
            \/ flow[f].reason = "reauth_successful"
         /\ \A k \in Tokens : resumed[k] <= 1)
            => \A k \in Tokens : callback_states[k] # f

(***************************************************************************)
(* C37: a forced refresh in which a family's request fails publishes no    *)
(* snapshot and leaves every family's cached value and last_fetched_at as  *)
(* they were before it started.                                            *)
(***************************************************************************)
C37_AsStated ==
    [][(ForcedStep /\ run'.outcome = "raised")
          => (/\ run'.published = None
              /\ cached' = cached
              /\ last' = last)]_vars

(***************************************************************************)
(* C38: across setups, failed setups, unloads, reloads and                 *)
(* re-authorizations of the entry, at most one 24h token refresh timer is  *)
(* registered for it at any time.                                          *)
(***************************************************************************)
C38_AsStated == timers <= 1

(***************************************************************************)
(* C39: when no external base URL is available as the client credentials   *)
(* are submitted, the flow reports external_url_required, records nothing  *)
(* in the state-token map, draws no state token for an authorize URL and   *)
(* stays at the step that collects the credentials.                        *)
(***************************************************************************)
C39_AsStated ==
    [][\A f \in FlowIds :
          (/\ flow[f].step = "user"
           /\ flow[f].result = "none"
           /\ flow'[f].result = "raised")
              => (/\ flow'[f].errors = "external_url_required"
                  /\ flow'[f].step = "user"
                  /\ callback_states' = callback_states
                  /\ issued' = issued)]_vars

(***************************************************************************)
(* C40: a rescan makes a car that is classified not EV-capable EV-capable  *)
(* (so that the battery and the charging status are polled) only when the  *)
(* car list it fetched holds the selected car with an EV-capable type; a   *)
(* rescan whose list no longer holds the selected car does not.            *)
(***************************************************************************)
C40_AsStated ==
    [][(~is_ev_capable /\ is_ev_capable')
          => (/\ car' # None
              /\ normalize_car_type(car'[1]) # None
              /\ normalize_car_type(car'[1])[1] \in EV_CAPABLE_CAR_TYPES)]_vars

====
